---- MODULE Spec2Model ----
(***************************************************************************)
(* A model of dynamic_complex.h: reference-counted Gaussian-integer,       *)
(* rational and floating-point complex numbers.                            *)
(*                                                                         *)
(* The heap is modelled explicitly.  Every C function is an operator that  *)
(* takes the machine state m (complex instances, engine objects, the       *)
(* fifteen singleton slots) and returns either the new machine state (void *)
(* functions of the engines) or a record [m |-> new state, ret |-> value]. *)
(* Handles are indices into the heap; NULL is 0.  Addresses are never      *)
(* reused, so an identity names one allocation for ever.                   *)
(*                                                                         *)
(* The integer engine (dynamic_int.h, the di_ functions) and the rational  *)
(* engine (dynamic_fraction.h, the df_ functions) are not part of the      *)
(* source tree; they are modelled from their contract: arbitrary-precision *)
(* values, every constructor and arithmetic function returns a new object  *)
(* with reference count 1, fractions are reduced with a positive           *)
(* denominator.                                                            *)
(***************************************************************************)
EXTENDS Integers, Sequences, FiniteSets, TLC

VARIABLES mem, h, last, x, y, res

vars == <<mem, h, last, x, y, res>>

----------------------------------------------------------------------------
(* Bounds of the model *)

\* width of size_t in the model (64 in the build; the wrap-around of the
\* saturated singleton count is only reachable with a small width)
SizeBits == 2
\* number of complex instances ever allocated in a run of Spec
MaxObj == 2
\* number of singleton slots a run of SpecOver initialises
MaxSingletons == 1
\* number of handle variables the caller has
NumHandles == 2
\* significand width of a double in the model (53 for IEEE-754 binary64)
MantBits == 3
\* components of the first Gaussian operand range over -MaxA..MaxA
MaxA == 4
\* components of the second Gaussian operand range over -MaxB..MaxB
MaxB == 2
\* numerators of the first rational operand range over -MaxNum..MaxNum
MaxNum == 3
\* denominators of the first rational operand range over 1..MaxDen, and so
\* does the max_denominator given to dc_double_to_frac
MaxDen == 2
\* dc_frac_from_ints is given numerators and denominators multiplied by
\* factors in -MaxK..MaxK, not 0
MaxK == 2
\* number of threads that share an instance
NumThreads == 3
\* number of references to the shared instance a thread holds at most
MaxHeld == 2
\* a computing caller makes its calls that allocate an instance while fewer
\* than MaxOpsObj instances have been allocated
MaxOpsObj == 2
\* a caller that passes invalid arguments constructs fewer than MaxPreObj + 1
\* instances and makes its calls that allocate and return while no more than
\* MaxPreObj instances have been allocated
MaxPreObj == 2

NULL == 0

----------------------------------------------------------------------------
(* Arithmetic helpers *)

RECURSIVE Pow2(_)
Pow2(k) == IF k = 0 THEN 1 ELSE 2 * Pow2(k - 1)

Abs(n) == IF n < 0 THEN -n ELSE n

Sign(n) == IF n < 0 THEN -1 ELSE IF n = 0 THEN 0 ELSE 1

\* Do([v \in {s} |-> rest]) is rest with v the outcome of the statement s:
\* the statements of a function body take effect in program order
Do(step) == step[CHOOSE v \in DOMAIN step : TRUE]

RECURSIVE GCD(_, _)
GCD(a, b) == IF b = 0 THEN a ELSE GCD(b, a % b)

\* SIZE_MAX of <stdint.h> at the model's width
SIZE_MAX == Pow2(SizeBits) - 1

\* unsigned arithmetic on size_t wraps
WrapSize(n) == n % (SIZE_MAX + 1)

\* n/d in lowest terms with a positive denominator (d # 0)
Reduce(n, d) ==
    LET g == GCD(Abs(n), Abs(d))
        s == IF d < 0 THEN -1 ELSE 1
    IN  <<(s * n) \div g, (s * d) \div g>>

----------------------------------------------------------------------------
(* Doubles.  A finite double is a pair <<n, d>> standing for n/d, with d a *)
(* power of two and n/d in lowest terms, whose significand fits MantBits   *)
(* bits; the exponent range is not limited (the model's values are far     *)
(* from overflow and underflow).  NaN is <<0, 0>>, +Inf <<1, 0>>, -Inf     *)
(* <<-1, 0>>.                                                              *)

NaN == <<0, 0>>

IsNaN(d) == d = NaN

IsFinite(d) == d[2] # 0

\* round-half-even of a/d for a >= 0, d > 0
RoundHalfEven(a, d) ==
    LET q == a \div d
        r == a % d
    IN  IF 2 * r < d THEN q
        ELSE IF 2 * r > d THEN q + 1
        ELSE IF q % 2 = 0 THEN q ELSE q + 1

\* a/d (a > 0, d > 0) rounded to MantBits significant bits, times up/down
RECURSIVE RoundSig(_, _, _, _)
RoundSig(a, d, up, down) ==
    IF a >= Pow2(MantBits) * d THEN RoundSig(a, 2 * d, 2 * up, down)
    ELSE IF a < Pow2(MantBits - 1) * d THEN RoundSig(2 * a, d, up, 2 * down)
    ELSE Reduce(RoundHalfEven(a, d) * up, down)

\* the double nearest to the rational n/d (d > 0), ties to even
RoundToDouble(n, d) ==
    IF n = 0 THEN <<0, 1>>
    ELSE LET r == RoundSig(Abs(n), d, 1, 1)
         IN  <<Sign(n) * r[1], r[2]>>

\* IEEE division of two finite doubles, divisor not zero
DoubleDiv(a, b) == RoundToDouble(Sign(b[1]) * a[1] * b[2], Abs(b[1]) * a[2])

\* == on doubles: false as soon as one side is NaN
DoubleEq(a, b) == ~IsNaN(a) /\ ~IsNaN(b) /\ a = b

\* round() of <math.h>: nearest integer, halfway cases away from zero
round(d) ==
    LET a == Abs(d[1])
        q == a \div d[2]
        r == a % d[2]
    IN  Sign(d[1]) * (IF 2 * r >= d[2] THEN q + 1 ELSE q)

----------------------------------------------------------------------------
(* The machine state                                                       *)
(*   m.obj  : the complex instances ever allocated, by address             *)
(*            [type, ref_count, real, imag, frees]; real and imag are      *)
(*            engine handles for "int" and "frac" and doubles for "double" *)
(*   m.comp : the engine objects ever allocated, by address                *)
(*            [kind, ref_count, val, frees]; val is an integer for "di"    *)
(*            and a reduced pair <<num, den>> for "df"                     *)
(*   m.slot : the fifteen static singleton pointers                        *)

Types == {"int", "frac", "double"}

Kinds == {"zero", "one", "i", "neg_one", "neg_i"}

EmptyMem ==
    [obj |-> <<>>, comp |-> <<>>, slot |-> [s \in Types \X Kinds |-> NULL]]

\* DC_MALLOC(sizeof(struct dc_complex_<type>_internal)): a new struct whose
\* fields are still to be stored (allocation failure is asserted, not handled)
DC_MALLOC(m, type) ==
    [m |-> [m EXCEPT !.obj = Append(@, [type |-> type, ref_count |-> 0,
                                        real |-> NULL, imag |-> NULL,
                                        frees |-> 0])],
     ret |-> Len(m.obj) + 1]

DC_ATOMIC_STORE(m, c, val) == [m EXCEPT !.obj[c].ref_count = val]

\* both return the value before the update
DC_ATOMIC_FETCH_ADD(m, c, val) ==
    [m |-> [m EXCEPT !.obj[c].ref_count = WrapSize(@ + val)],
     ret |-> m.obj[c].ref_count]

\* a fetch-and-subtract that returns the value after the update
DC_ATOMIC_FETCH_SUB_new_value(m, c, val) ==
    [m |-> [m EXCEPT !.obj[c].ref_count = WrapSize(@ - val)],
     ret |-> WrapSize(m.obj[c].ref_count - val)]

DC_ATOMIC_FETCH_SUB(m, c, val) ==
    [m |-> [m EXCEPT !.obj[c].ref_count = WrapSize(@ - val)],
     ret |-> m.obj[c].ref_count]

DC_FREE(m, c) == [m EXCEPT !.obj[c].frees = @ + 1]

\* the instance at address c is allocated and has not been freed
Alive(m, c) == c \in 1..Len(m.obj) /\ m.obj[c].frees = 0

\* the engine object at address e is allocated and has not been freed
CompAlive(m, e) == e \in 1..Len(m.comp) /\ m.comp[e].frees = 0

----------------------------------------------------------------------------
(* The integer engine (contract of dynamic_int.h) *)

EngineNew(m, kind, val) ==
    [m |-> [m EXCEPT !.comp = Append(@, [kind |-> kind, ref_count |-> 1,
                                         val |-> val, frees |-> 0])],
     ret |-> Len(m.comp) + 1]

EngineRetain(m, e) == [m |-> [m EXCEPT !.comp[e].ref_count = @ + 1], ret |-> e]

EngineRelease(m, e) ==
    IF m.comp[e].ref_count <= 1
    THEN [m EXCEPT !.comp[e].ref_count = 0, !.comp[e].frees = @ + 1]
    ELSE [m EXCEPT !.comp[e].ref_count = @ - 1]

di_from_int64(m, v) == EngineNew(m, "di", v)

di_one(m) == EngineNew(m, "di", 1)

di_retain(m, e) == EngineRetain(m, e)

di_release(m, e) == EngineRelease(m, e)

di_add(m, a, b) == EngineNew(m, "di", m.comp[a].val + m.comp[b].val)

di_sub(m, a, b) == EngineNew(m, "di", m.comp[a].val - m.comp[b].val)

di_mul(m, a, b) == EngineNew(m, "di", m.comp[a].val * m.comp[b].val)

di_negate(m, a) == EngineNew(m, "di", -m.comp[a].val)

di_compare(m, a, b) == Sign(m.comp[a].val - m.comp[b].val)

di_is_zero(m, a) == m.comp[a].val = 0

di_is_negative(m, a) == m.comp[a].val < 0

di_to_double(m, a) == RoundToDouble(m.comp[a].val, 1)

----------------------------------------------------------------------------
(* The rational engine (contract of dynamic_fraction.h) *)

df_from_ints(m, num, den) == EngineNew(m, "df", Reduce(num, den))

df_from_di(m, num, den) ==
    EngineNew(m, "df", Reduce(m.comp[num].val, m.comp[den].val))

df_one(m) == EngineNew(m, "df", <<1, 1>>)

df_zero(m) == EngineNew(m, "df", <<0, 1>>)

df_neg_one(m) == EngineNew(m, "df", <<-1, 1>>)

df_retain(m, e) == EngineRetain(m, e)

df_release(m, e) == EngineRelease(m, e)

df_add(m, a, b) ==
    LET p == m.comp[a].val
        q == m.comp[b].val
    IN  EngineNew(m, "df", Reduce(p[1] * q[2] + q[1] * p[2], p[2] * q[2]))

df_sub(m, a, b) ==
    LET p == m.comp[a].val
        q == m.comp[b].val
    IN  EngineNew(m, "df", Reduce(p[1] * q[2] - q[1] * p[2], p[2] * q[2]))

df_mul(m, a, b) ==
    LET p == m.comp[a].val
        q == m.comp[b].val
    IN  EngineNew(m, "df", Reduce(p[1] * q[1], p[2] * q[2]))

\* the divisor is not zero
df_div(m, a, b) ==
    LET p == m.comp[a].val
        q == m.comp[b].val
    IN  EngineNew(m, "df", Reduce(p[1] * q[2], p[2] * q[1]))

df_negate(m, a) == EngineNew(m, "df", <<-m.comp[a].val[1], m.comp[a].val[2]>>)

df_eq(m, a, b) == m.comp[a].val = m.comp[b].val

df_cmp(m, a, b) ==
    Sign(m.comp[a].val[1] * m.comp[b].val[2] - m.comp[b].val[1] * m.comp[a].val[2])

df_is_zero(m, a) == m.comp[a].val[1] = 0

df_is_negative(m, a) == m.comp[a].val[1] < 0

df_is_integer(m, a) == m.comp[a].val[2] = 1

\* numerator and denominator are converted to double and divided
df_to_double(m, a) ==
    DoubleDiv(RoundToDouble(m.comp[a].val[1], 1), RoundToDouble(m.comp[a].val[2], 1))

\* |v - n/d| < |v - k/e| for the finite double v, d > 0, e > 0
Closer(v, n, d, k, e) ==
    Abs(v[1] * d - n * v[2]) * e < Abs(v[1] * e - k * v[2]) * d

\* the integer nearest to v * d (halfway cases away from zero)
NearestNum(v, d) == round(<<v[1] * d, v[2]>>)

\* the fraction with denominator at most max_denominator nearest to the
\* finite double v; of two equally near, the one of smaller denominator
df_from_double(m, v, max_denominator) ==
    LET best == CHOOSE d \in 1..max_denominator :
                  /\ \A e \in 1..max_denominator :
                        ~Closer(v, NearestNum(v, e), e, NearestNum(v, d), d)
                  /\ \A e \in 1..(d - 1) :
                        Closer(v, NearestNum(v, d), d, NearestNum(v, e), e)
    IN  EngineNew(m, "df", Reduce(NearestNum(v, best), best))

----------------------------------------------------------------------------
(* The singleton constants *)

ConstRe(k) == CASE k = "zero" -> 0 [] k = "one" -> 1 [] k = "i" -> 0
                [] k = "neg_one" -> -1 [] k = "neg_i" -> 0

ConstIm(k) == CASE k = "zero" -> 0 [] k = "one" -> 0 [] k = "i" -> 1
                [] k = "neg_one" -> 0 [] k = "neg_i" -> -1

\* *c == dc_<type>_zero_singleton || ... || *c == dc_<type>_neg_i_singleton
IsSingletonOf(m, type, c) == \E k \in Kinds : m.slot[<<type, k>>] = c

IsSingleton(m, c) == \E s \in Types \X Kinds : m.slot[s] = c

----------------------------------------------------------------------------
(* Gaussian integers: creation and memory management *)

dc_int_from_ints(m, real, imag) ==
    Do([result \in {DC_MALLOC(m, "int")} |->
    Do([m1 \in {DC_ATOMIC_STORE(result.m, result.ret, 1)} |->
    Do([re \in {di_from_int64(m1, real)} |->
    Do([im \in {di_from_int64(re.m, imag)} |->
    [m |-> [im.m EXCEPT !.obj[result.ret].real = re.ret,
                        !.obj[result.ret].imag = im.ret],
     ret |-> result.ret]
    ])])])])

dc_int_from_di(m, real, imag) ==
    Do([result \in {DC_MALLOC(m, "int")} |->
    Do([m1 \in {DC_ATOMIC_STORE(result.m, result.ret, 1)} |->
    Do([re \in {di_retain(m1, real)} |->
    Do([im \in {di_retain(re.m, imag)} |->
    [m |-> [im.m EXCEPT !.obj[result.ret].real = re.ret,
                        !.obj[result.ret].imag = im.ret],
     ret |-> result.ret]
    ])])])])

\* dc_int_retain without the increment
dc_int_retain_no_add(m, c) == [m |-> m, ret |-> c]

dc_int_retain(m, c) ==
    [m |-> DC_ATOMIC_FETCH_ADD(m, c, 1).m, ret |-> c]

\* dc_int_release without the test that spares the singletons
dc_int_release_no_singleton_test(m, c) ==
    IF c = NULL THEN [m |-> m, ret |-> c]
    ELSE LET old_count == DC_ATOMIC_FETCH_SUB(m, c, 1)
             m1 == old_count.m
         IN  IF old_count.ret = 1
             THEN LET m2 == di_release(m1, m1.obj[c].real)
                      m3 == di_release(m2, m2.obj[c].imag)
                  IN  [m |-> DC_FREE(m3, c), ret |-> NULL]
             ELSE [m |-> m1, ret |-> NULL]

\* dc_int_release leaving *c as it was when it spares a singleton
dc_int_release_singleton_keeps_handle(m, c) ==
    IF c = NULL THEN [m |-> m, ret |-> c]
    ELSE LET old_count == DC_ATOMIC_FETCH_SUB(m, c, 1)
             m1 == old_count.m
         IN  IF old_count.ret = 1
             THEN IF IsSingletonOf(m1, "int", c)
                  THEN [m |-> m1, ret |-> c]
                  ELSE LET m2 == di_release(m1, m1.obj[c].real)
                           m3 == di_release(m2, m2.obj[c].imag)
                       IN  [m |-> DC_FREE(m3, c), ret |-> NULL]
             ELSE [m |-> m1, ret |-> NULL]

\* ret is the value of *c when the function returns
dc_int_release(m, c) ==
    IF c = NULL THEN [m |-> m, ret |-> c]
    ELSE LET old_count == DC_ATOMIC_FETCH_SUB(m, c, 1)
             m1 == old_count.m
         IN  IF old_count.ret = 1
             THEN IF IsSingletonOf(m1, "int", c)
                  THEN [m |-> m1, ret |-> NULL]
                  ELSE LET m2 == di_release(m1, m1.obj[c].real)
                           m3 == di_release(m2, m2.obj[c].imag)
                       IN  [m |-> DC_FREE(m3, c), ret |-> NULL]
             ELSE [m |-> m1, ret |-> NULL]

\* dc_int_release from the test of old_count on, old_count being the value
\* DC_ATOMIC_FETCH_SUB returned; ret is the value of *c on return
dc_int_release_after_sub(m, c, old_count) ==
    IF old_count = 1
    THEN IF IsSingletonOf(m, "int", c)
         THEN [m |-> m, ret |-> NULL]
         ELSE Do([m2 \in {di_release(m, m.obj[c].real)} |->
              Do([m3 \in {di_release(m2, m2.obj[c].imag)} |->
              [m |-> DC_FREE(m3, c), ret |-> NULL]
              ])])
    ELSE [m |-> m, ret |-> NULL]

\* dc_int_copy handing out another reference to the same instance
dc_int_copy_shared(m, c) == dc_int_retain(m, c)

dc_int_copy(m, c) == dc_int_from_di(m, m.obj[c].real, m.obj[c].imag)

\* the accessors without the test of the slot: every call makes an instance
dc_int_singleton_always_new(m, k) ==
    Do([made \in {dc_int_from_ints(m, ConstRe(k), ConstIm(k))} |->
    Do([m1 \in {DC_ATOMIC_STORE([made.m EXCEPT !.slot[<<"int", k>>] = made.ret],
                                made.ret, SIZE_MAX \div 2)} |->
    dc_int_retain(m1, m1.slot[<<"int", k>>])
    ])])

\* dc_int_zero, dc_int_one, dc_int_i, dc_int_neg_one, dc_int_neg_i
dc_int_singleton(m, k) ==
    Do([m1 \in {IF m.slot[<<"int", k>>] = NULL
                THEN Do([made \in {dc_int_from_ints(m, ConstRe(k), ConstIm(k))} |->
                     DC_ATOMIC_STORE(
                         [made.m EXCEPT !.slot[<<"int", k>>] = made.ret],
                         made.ret, SIZE_MAX \div 2)
                     ])
                ELSE m} |->
    dc_int_retain(m1, m1.slot[<<"int", k>>])
    ])

----------------------------------------------------------------------------
(* Rational complex numbers: creation and memory management *)

dc_frac_from_df(m, real, imag) ==
    Do([result \in {DC_MALLOC(m, "frac")} |->
    Do([m1 \in {DC_ATOMIC_STORE(result.m, result.ret, 1)} |->
    Do([re \in {df_retain(m1, real)} |->
    Do([im \in {df_retain(re.m, imag)} |->
    [m |-> [im.m EXCEPT !.obj[result.ret].real = re.ret,
                        !.obj[result.ret].imag = im.ret],
     ret |-> result.ret]
    ])])])])

\* dc_frac_from_ints building the imaginary part over real_den
dc_frac_from_ints_real_den(m, real_num, real_den, imag_num, imag_den) ==
    Do([real \in {df_from_ints(m, real_num, real_den)} |->
    Do([imag \in {df_from_ints(real.m, imag_num, real_den)} |->
    Do([result \in {dc_frac_from_df(imag.m, real.ret, imag.ret)} |->
    Do([m1 \in {df_release(result.m, real.ret)} |->
    Do([m2 \in {df_release(m1, imag.ret)} |->
    [m |-> m2, ret |-> result.ret]
    ])])])])])

dc_frac_from_ints(m, real_num, real_den, imag_num, imag_den) ==
    Do([real \in {df_from_ints(m, real_num, real_den)} |->
    Do([imag \in {df_from_ints(real.m, imag_num, imag_den)} |->
    Do([result \in {dc_frac_from_df(imag.m, real.ret, imag.ret)} |->
    Do([m1 \in {df_release(result.m, real.ret)} |->
    Do([m2 \in {df_release(m1, imag.ret)} |->
    [m |-> m2, ret |-> result.ret]
    ])])])])])

dc_frac_retain(m, c) ==
    [m |-> DC_ATOMIC_FETCH_ADD(m, c, 1).m, ret |-> c]

\* dc_frac_release leaving *c as it was
dc_frac_release_keeps_handle(m, c) ==
    IF c = NULL THEN [m |-> m, ret |-> c]
    ELSE LET old_count == DC_ATOMIC_FETCH_SUB(m, c, 1)
             m1 == old_count.m
         IN  IF old_count.ret = 1 /\ ~IsSingletonOf(m1, "frac", c)
             THEN LET m2 == df_release(m1, m1.obj[c].real)
                      m3 == df_release(m2, m2.obj[c].imag)
                  IN  [m |-> DC_FREE(m3, c), ret |-> c]
             ELSE [m |-> m1, ret |-> c]

dc_frac_release(m, c) ==
    IF c = NULL THEN [m |-> m, ret |-> c]
    ELSE LET old_count == DC_ATOMIC_FETCH_SUB(m, c, 1)
             m1 == old_count.m
         IN  IF old_count.ret = 1
             THEN IF IsSingletonOf(m1, "frac", c)
                  THEN [m |-> m1, ret |-> NULL]
                  ELSE LET m2 == df_release(m1, m1.obj[c].real)
                           m3 == df_release(m2, m2.obj[c].imag)
                       IN  [m |-> DC_FREE(m3, c), ret |-> NULL]
             ELSE [m |-> m1, ret |-> NULL]

dc_frac_copy(m, c) == dc_frac_from_df(m, m.obj[c].real, m.obj[c].imag)

\* dc_frac_zero, dc_frac_one, dc_frac_i, dc_frac_neg_one, dc_frac_neg_i
dc_frac_singleton(m, k) ==
    Do([m1 \in {IF m.slot[<<"frac", k>>] = NULL
                THEN Do([made \in {dc_frac_from_ints(m, ConstRe(k), 1, ConstIm(k), 1)} |->
                     DC_ATOMIC_STORE(
                         [made.m EXCEPT !.slot[<<"frac", k>>] = made.ret],
                         made.ret, SIZE_MAX \div 2)
                     ])
                ELSE m} |->
    dc_frac_retain(m1, m1.slot[<<"frac", k>>])
    ])

----------------------------------------------------------------------------
(* Floating-point complex numbers: creation and memory management *)

\* real + imag * I, where I is the complex value 0 + 1i: the product's real
\* part is imag * 0.0, which is NaN when imag is not finite
dc_double_from_doubles(m, real, imag) ==
    Do([result \in {DC_MALLOC(m, "double")} |->
    Do([m1 \in {DC_ATOMIC_STORE(result.m, result.ret, 1)} |->
    [m |-> [m1 EXCEPT !.obj[result.ret].real =
                          IF IsFinite(imag) THEN real ELSE NaN,
                      !.obj[result.ret].imag = imag],
     ret |-> result.ret]
    ])])

dc_double_retain(m, c) ==
    [m |-> DC_ATOMIC_FETCH_ADD(m, c, 1).m, ret |-> c]

\* dc_double_release leaving *c as it was when the count stays above zero
dc_double_release_no_null(m, c) ==
    IF c = NULL THEN [m |-> m, ret |-> c]
    ELSE LET old_count == DC_ATOMIC_FETCH_SUB(m, c, 1)
             m1 == old_count.m
         IN  IF old_count.ret = 1
             THEN IF IsSingletonOf(m1, "double", c)
                  THEN [m |-> m1, ret |-> NULL]
                  ELSE [m |-> DC_FREE(m1, c), ret |-> NULL]
             ELSE [m |-> m1, ret |-> c]

dc_double_release(m, c) ==
    IF c = NULL THEN [m |-> m, ret |-> c]
    ELSE LET old_count == DC_ATOMIC_FETCH_SUB(m, c, 1)
             m1 == old_count.m
         IN  IF old_count.ret = 1
             THEN IF IsSingletonOf(m1, "double", c)
                  THEN [m |-> m1, ret |-> NULL]
                  ELSE [m |-> DC_FREE(m1, c), ret |-> NULL]
             ELSE [m |-> m1, ret |-> NULL]

dc_double_copy(m, c) == dc_double_from_doubles(m, m.obj[c].real, m.obj[c].imag)

\* dc_double_zero, dc_double_one, dc_double_i, dc_double_neg_one, dc_double_neg_i
dc_double_singleton(m, k) ==
    Do([m1 \in {IF m.slot[<<"double", k>>] = NULL
                THEN Do([made \in {dc_double_from_doubles(m, <<ConstRe(k), 1>>, <<ConstIm(k), 1>>)} |->
                     DC_ATOMIC_STORE(
                         [made.m EXCEPT !.slot[<<"double", k>>] = made.ret],
                         made.ret, SIZE_MAX \div 2)
                     ])
                ELSE m} |->
    dc_double_retain(m1, m1.slot[<<"double", k>>])
    ])

----------------------------------------------------------------------------
(* Equality and the component values of an instance *)

dc_int_is_zero(m, c) ==
    di_is_zero(m, m.obj[c].real) /\ di_is_zero(m, m.obj[c].imag)

dc_int_eq(m, a, b) ==
    /\ di_compare(m, m.obj[a].real, m.obj[b].real) = 0
    /\ di_compare(m, m.obj[a].imag, m.obj[b].imag) = 0

dc_frac_eq(m, a, b) ==
    /\ df_eq(m, m.obj[a].real, m.obj[b].real)
    /\ df_eq(m, m.obj[a].imag, m.obj[b].imag)

dc_double_eq(m, a, b) ==
    /\ DoubleEq(m.obj[a].real, m.obj[b].real)
    /\ DoubleEq(m.obj[a].imag, m.obj[b].imag)

\* the mathematical value held by the instance at c
ValueOf(m, c) ==
    IF m.obj[c].type = "double"
    THEN [type |-> "double", real |-> m.obj[c].real, imag |-> m.obj[c].imag]
    ELSE [type |-> m.obj[c].type, real |-> m.comp[m.obj[c].real].val,
          imag |-> m.comp[m.obj[c].imag].val]

----------------------------------------------------------------------------
(* Gaussian integers: arithmetic and conversions *)

\* dc_int_mul with the real part computed as ac + bd
dc_int_mul_real_sum(m, a, b) ==
    Do([ac \in {di_mul(m, m.obj[a].real, m.obj[b].real)} |->
    Do([bd \in {di_mul(ac.m, m.obj[a].imag, m.obj[b].imag)} |->
    Do([ad \in {di_mul(bd.m, m.obj[a].real, m.obj[b].imag)} |->
    Do([bc \in {di_mul(ad.m, m.obj[a].imag, m.obj[b].real)} |->
    Do([real \in {di_add(bc.m, ac.ret, bd.ret)} |->
    Do([imag \in {di_add(real.m, ad.ret, bc.ret)} |->
    Do([result \in {dc_int_from_di(imag.m, real.ret, imag.ret)} |->
    Do([m1 \in {di_release(result.m, ac.ret)} |->
    Do([m2 \in {di_release(m1, bd.ret)} |->
    Do([m3 \in {di_release(m2, ad.ret)} |->
    Do([m4 \in {di_release(m3, bc.ret)} |->
    Do([m5 \in {di_release(m4, real.ret)} |->
    Do([m6 \in {di_release(m5, imag.ret)} |->
    [m |-> m6, ret |-> result.ret]
    ])])])])])])])])])])])])])

dc_int_mul(m, a, b) ==
    Do([ac \in {di_mul(m, m.obj[a].real, m.obj[b].real)} |->
    Do([bd \in {di_mul(ac.m, m.obj[a].imag, m.obj[b].imag)} |->
    Do([ad \in {di_mul(bd.m, m.obj[a].real, m.obj[b].imag)} |->
    Do([bc \in {di_mul(ad.m, m.obj[a].imag, m.obj[b].real)} |->
    Do([real \in {di_sub(bc.m, ac.ret, bd.ret)} |->
    Do([imag \in {di_add(real.m, ad.ret, bc.ret)} |->
    Do([result \in {dc_int_from_di(imag.m, real.ret, imag.ret)} |->
    Do([m1 \in {di_release(result.m, ac.ret)} |->
    Do([m2 \in {di_release(m1, bd.ret)} |->
    Do([m3 \in {di_release(m2, ad.ret)} |->
    Do([m4 \in {di_release(m3, bc.ret)} |->
    Do([m5 \in {di_release(m4, real.ret)} |->
    Do([m6 \in {di_release(m5, imag.ret)} |->
    [m |-> m6, ret |-> result.ret]
    ])])])])])])])])])])])])])

\* dc_int_add handing out its first operand when the second one is zero
dc_int_add_reuse(m, a, b) ==
    IF dc_int_is_zero(m, b) THEN dc_int_retain(m, a)
    ELSE Do([real \in {di_add(m, m.obj[a].real, m.obj[b].real)} |->
         Do([imag \in {di_add(real.m, m.obj[a].imag, m.obj[b].imag)} |->
         Do([result \in {dc_int_from_di(imag.m, real.ret, imag.ret)} |->
         Do([m1 \in {di_release(result.m, real.ret)} |->
         Do([m2 \in {di_release(m1, imag.ret)} |->
         [m |-> m2, ret |-> result.ret]
         ])])])])])

\* dc_int_add subtracting the imaginary parts
dc_int_add_imag_sub(m, a, b) ==
    Do([real \in {di_add(m, m.obj[a].real, m.obj[b].real)} |->
    Do([imag \in {di_sub(real.m, m.obj[a].imag, m.obj[b].imag)} |->
    Do([result \in {dc_int_from_di(imag.m, real.ret, imag.ret)} |->
    Do([m1 \in {di_release(result.m, real.ret)} |->
    Do([m2 \in {di_release(m1, imag.ret)} |->
    [m |-> m2, ret |-> result.ret]
    ])])])])])

dc_int_add(m, a, b) ==
    Do([real \in {di_add(m, m.obj[a].real, m.obj[b].real)} |->
    Do([imag \in {di_add(real.m, m.obj[a].imag, m.obj[b].imag)} |->
    Do([result \in {dc_int_from_di(imag.m, real.ret, imag.ret)} |->
    Do([m1 \in {di_release(result.m, real.ret)} |->
    Do([m2 \in {di_release(m1, imag.ret)} |->
    [m |-> m2, ret |-> result.ret]
    ])])])])])

dc_int_sub(m, a, b) ==
    Do([real \in {di_sub(m, m.obj[a].real, m.obj[b].real)} |->
    Do([imag \in {di_sub(real.m, m.obj[a].imag, m.obj[b].imag)} |->
    Do([result \in {dc_int_from_di(imag.m, real.ret, imag.ret)} |->
    Do([m1 \in {di_release(result.m, real.ret)} |->
    Do([m2 \in {di_release(m1, imag.ret)} |->
    [m |-> m2, ret |-> result.ret]
    ])])])])])

dc_int_negate(m, c) ==
    Do([real \in {di_negate(m, m.obj[c].real)} |->
    Do([imag \in {di_negate(real.m, m.obj[c].imag)} |->
    Do([result \in {dc_int_from_di(imag.m, real.ret, imag.ret)} |->
    Do([m1 \in {di_release(result.m, real.ret)} |->
    Do([m2 \in {di_release(m1, imag.ret)} |->
    [m |-> m2, ret |-> result.ret]
    ])])])])])

\* dc_int_conj negating the real part
dc_int_conj_real_negated(m, c) ==
    Do([real \in {di_negate(m, m.obj[c].real)} |->
    Do([imag \in {di_retain(real.m, m.obj[c].imag)} |->
    Do([result \in {dc_int_from_di(imag.m, real.ret, imag.ret)} |->
    Do([m1 \in {di_release(result.m, real.ret)} |->
    Do([m2 \in {di_release(m1, imag.ret)} |->
    [m |-> m2, ret |-> result.ret]
    ])])])])])

dc_int_conj(m, c) ==
    Do([real \in {di_retain(m, m.obj[c].real)} |->
    Do([imag \in {di_negate(real.m, m.obj[c].imag)} |->
    Do([result \in {dc_int_from_di(imag.m, real.ret, imag.ret)} |->
    Do([m1 \in {di_release(result.m, real.ret)} |->
    Do([m2 \in {di_release(m1, imag.ret)} |->
    [m |-> m2, ret |-> result.ret]
    ])])])])])

dc_int_is_real(m, c) == di_is_zero(m, m.obj[c].imag)

dc_int_to_frac(m, c) ==
    Do([one1 \in {di_one(m)} |->
    Do([real \in {df_from_di(one1.m, m.obj[c].real, one1.ret)} |->
    Do([one2 \in {di_one(real.m)} |->
    Do([imag \in {df_from_di(one2.m, m.obj[c].imag, one2.ret)} |->
    Do([result \in {dc_frac_from_df(imag.m, real.ret, imag.ret)} |->
    Do([m1 \in {df_release(result.m, real.ret)} |->
    Do([m2 \in {df_release(m1, imag.ret)} |->
    [m |-> m2, ret |-> result.ret]
    ])])])])])])])

----------------------------------------------------------------------------
(* Rational complex numbers: arithmetic, predicates and conversions *)

dc_frac_is_zero(m, c) ==
    df_is_zero(m, m.obj[c].real) /\ df_is_zero(m, m.obj[c].imag)

dc_frac_is_real(m, c) == df_is_zero(m, m.obj[c].imag)

\* dc_frac_is_gaussian_int with || for &&
dc_frac_is_gaussian_int_either(m, c) ==
    df_is_integer(m, m.obj[c].real) \/ df_is_integer(m, m.obj[c].imag)

dc_frac_is_gaussian_int(m, c) ==
    df_is_integer(m, m.obj[c].real) /\ df_is_integer(m, m.obj[c].imag)

\* dc_frac_add with the imaginary part from df_sub
dc_frac_add_imag_sub(m, a, b) ==
    Do([real \in {df_add(m, m.obj[a].real, m.obj[b].real)} |->
    Do([imag \in {df_sub(real.m, m.obj[a].imag, m.obj[b].imag)} |->
    Do([result \in {dc_frac_from_df(imag.m, real.ret, imag.ret)} |->
    Do([m1 \in {df_release(result.m, real.ret)} |->
    Do([m2 \in {df_release(m1, imag.ret)} |->
    [m |-> m2, ret |-> result.ret]
    ])])])])])

dc_frac_add(m, a, b) ==
    Do([real \in {df_add(m, m.obj[a].real, m.obj[b].real)} |->
    Do([imag \in {df_add(real.m, m.obj[a].imag, m.obj[b].imag)} |->
    Do([result \in {dc_frac_from_df(imag.m, real.ret, imag.ret)} |->
    Do([m1 \in {df_release(result.m, real.ret)} |->
    Do([m2 \in {df_release(m1, imag.ret)} |->
    [m |-> m2, ret |-> result.ret]
    ])])])])])

dc_frac_sub(m, a, b) ==
    Do([real \in {df_sub(m, m.obj[a].real, m.obj[b].real)} |->
    Do([imag \in {df_sub(real.m, m.obj[a].imag, m.obj[b].imag)} |->
    Do([result \in {dc_frac_from_df(imag.m, real.ret, imag.ret)} |->
    Do([m1 \in {df_release(result.m, real.ret)} |->
    Do([m2 \in {df_release(m1, imag.ret)} |->
    [m |-> m2, ret |-> result.ret]
    ])])])])])

dc_frac_mul(m, a, b) ==
    Do([ac \in {df_mul(m, m.obj[a].real, m.obj[b].real)} |->
    Do([bd \in {df_mul(ac.m, m.obj[a].imag, m.obj[b].imag)} |->
    Do([ad \in {df_mul(bd.m, m.obj[a].real, m.obj[b].imag)} |->
    Do([bc \in {df_mul(ad.m, m.obj[a].imag, m.obj[b].real)} |->
    Do([real \in {df_sub(bc.m, ac.ret, bd.ret)} |->
    Do([imag \in {df_add(real.m, ad.ret, bc.ret)} |->
    Do([result \in {dc_frac_from_df(imag.m, real.ret, imag.ret)} |->
    Do([m1 \in {df_release(result.m, ac.ret)} |->
    Do([m2 \in {df_release(m1, bd.ret)} |->
    Do([m3 \in {df_release(m2, ad.ret)} |->
    Do([m4 \in {df_release(m3, bc.ret)} |->
    Do([m5 \in {df_release(m4, real.ret)} |->
    Do([m6 \in {df_release(m5, imag.ret)} |->
    [m |-> m6, ret |-> result.ret]
    ])])])])])])])])])])])])])

\* dc_frac_div with the imaginary numerator computed as ad - bc
dc_frac_div_imag_swapped(m, a, b) ==
    Do([c2 \in {df_mul(m, m.obj[b].real, m.obj[b].real)} |->
    Do([d2 \in {df_mul(c2.m, m.obj[b].imag, m.obj[b].imag)} |->
    Do([denom \in {df_add(d2.m, c2.ret, d2.ret)} |->
    Do([ac \in {df_mul(denom.m, m.obj[a].real, m.obj[b].real)} |->
    Do([bd \in {df_mul(ac.m, m.obj[a].imag, m.obj[b].imag)} |->
    Do([bc \in {df_mul(bd.m, m.obj[a].imag, m.obj[b].real)} |->
    Do([ad \in {df_mul(bc.m, m.obj[a].real, m.obj[b].imag)} |->
    Do([real_num \in {df_add(ad.m, ac.ret, bd.ret)} |->
    Do([imag_num \in {df_sub(real_num.m, ad.ret, bc.ret)} |->
    Do([real \in {df_div(imag_num.m, real_num.ret, denom.ret)} |->
    Do([imag \in {df_div(real.m, imag_num.ret, denom.ret)} |->
    Do([result \in {dc_frac_from_df(imag.m, real.ret, imag.ret)} |->
    Do([m1 \in {df_release(result.m, c2.ret)} |->
    Do([m2 \in {df_release(m1, d2.ret)} |->
    Do([m3 \in {df_release(m2, denom.ret)} |->
    Do([m4 \in {df_release(m3, ac.ret)} |->
    Do([m5 \in {df_release(m4, bd.ret)} |->
    Do([m6 \in {df_release(m5, bc.ret)} |->
    Do([m7 \in {df_release(m6, ad.ret)} |->
    Do([m8 \in {df_release(m7, real_num.ret)} |->
    Do([m9 \in {df_release(m8, imag_num.ret)} |->
    Do([m10 \in {df_release(m9, real.ret)} |->
    Do([m11 \in {df_release(m10, imag.ret)} |->
    [m |-> m11, ret |-> result.ret]
    ])])])])])])])])])])])])])])])])])])])])])])])

\* asserts that b is not zero
dc_frac_div(m, a, b) ==
    Do([c2 \in {df_mul(m, m.obj[b].real, m.obj[b].real)} |->
    Do([d2 \in {df_mul(c2.m, m.obj[b].imag, m.obj[b].imag)} |->
    Do([denom \in {df_add(d2.m, c2.ret, d2.ret)} |->
    Do([ac \in {df_mul(denom.m, m.obj[a].real, m.obj[b].real)} |->
    Do([bd \in {df_mul(ac.m, m.obj[a].imag, m.obj[b].imag)} |->
    Do([bc \in {df_mul(bd.m, m.obj[a].imag, m.obj[b].real)} |->
    Do([ad \in {df_mul(bc.m, m.obj[a].real, m.obj[b].imag)} |->
    Do([real_num \in {df_add(ad.m, ac.ret, bd.ret)} |->
    Do([imag_num \in {df_sub(real_num.m, bc.ret, ad.ret)} |->
    Do([real \in {df_div(imag_num.m, real_num.ret, denom.ret)} |->
    Do([imag \in {df_div(real.m, imag_num.ret, denom.ret)} |->
    Do([result \in {dc_frac_from_df(imag.m, real.ret, imag.ret)} |->
    Do([m1 \in {df_release(result.m, c2.ret)} |->
    Do([m2 \in {df_release(m1, d2.ret)} |->
    Do([m3 \in {df_release(m2, denom.ret)} |->
    Do([m4 \in {df_release(m3, ac.ret)} |->
    Do([m5 \in {df_release(m4, bd.ret)} |->
    Do([m6 \in {df_release(m5, bc.ret)} |->
    Do([m7 \in {df_release(m6, ad.ret)} |->
    Do([m8 \in {df_release(m7, real_num.ret)} |->
    Do([m9 \in {df_release(m8, imag_num.ret)} |->
    Do([m10 \in {df_release(m9, real.ret)} |->
    Do([m11 \in {df_release(m10, imag.ret)} |->
    [m |-> m11, ret |-> result.ret]
    ])])])])])])])])])])])])])])])])])])])])])])])

dc_frac_negate(m, c) ==
    Do([real \in {df_negate(m, m.obj[c].real)} |->
    Do([imag \in {df_negate(real.m, m.obj[c].imag)} |->
    Do([result \in {dc_frac_from_df(imag.m, real.ret, imag.ret)} |->
    Do([m1 \in {df_release(result.m, real.ret)} |->
    Do([m2 \in {df_release(m1, imag.ret)} |->
    [m |-> m2, ret |-> result.ret]
    ])])])])])

\* dc_frac_conj negating the imaginary part of its operand in place
dc_frac_conj_in_place(m, c) ==
    Do([imag \in {df_negate(m, m.obj[c].imag)} |->
    Do([m1 \in {df_release(imag.m, m.obj[c].imag)} |->
    dc_frac_retain([m1 EXCEPT !.obj[c].imag = imag.ret], c)
    ])])

dc_frac_conj(m, c) ==
    Do([real \in {df_retain(m, m.obj[c].real)} |->
    Do([imag \in {df_negate(real.m, m.obj[c].imag)} |->
    Do([result \in {dc_frac_from_df(imag.m, real.ret, imag.ret)} |->
    Do([m1 \in {df_release(result.m, real.ret)} |->
    Do([m2 \in {df_release(m1, imag.ret)} |->
    [m |-> m2, ret |-> result.ret]
    ])])])])])

\* dc_frac_reciprocal with the numerator built from (zero, one)
dc_frac_reciprocal_num_swapped(m, c) ==
    Do([one \in {df_one(m)} |->
    Do([zero \in {df_zero(one.m)} |->
    Do([num \in {dc_frac_from_df(zero.m, zero.ret, one.ret)} |->
    Do([result \in {dc_frac_div(num.m, num.ret, c)} |->
    Do([m1 \in {df_release(result.m, one.ret)} |->
    Do([m2 \in {df_release(m1, zero.ret)} |->
    Do([m3 \in {dc_frac_release(m2, num.ret).m} |->
    [m |-> m3, ret |-> result.ret]
    ])])])])])])])

\* asserts that c is not zero
dc_frac_reciprocal(m, c) ==
    Do([one \in {df_one(m)} |->
    Do([zero \in {df_zero(one.m)} |->
    Do([num \in {dc_frac_from_df(zero.m, one.ret, zero.ret)} |->
    Do([result \in {dc_frac_div(num.m, num.ret, c)} |->
    Do([m1 \in {df_release(result.m, one.ret)} |->
    Do([m2 \in {df_release(m1, zero.ret)} |->
    Do([m3 \in {dc_frac_release(m2, num.ret).m} |->
    [m |-> m3, ret |-> result.ret]
    ])])])])])])])

\* (int64_t)round(x): the model's values are far inside the range of int64_t
dc_frac_to_int(m, c) ==
    Do([real \in {df_to_double(m, m.obj[c].real)} |->
    Do([imag \in {df_to_double(m, m.obj[c].imag)} |->
    Do([real_rounded \in {round(real)} |->
    Do([imag_rounded \in {round(imag)} |->
    dc_int_from_ints(m, real_rounded, imag_rounded)
    ])])])])

dc_int_div(m, a, b) ==
    Do([af \in {dc_int_to_frac(m, a)} |->
    Do([bf \in {dc_int_to_frac(af.m, b)} |->
    Do([result \in {dc_frac_div(bf.m, af.ret, bf.ret)} |->
    Do([m1 \in {dc_frac_release(result.m, af.ret).m} |->
    Do([m2 \in {dc_frac_release(m1, bf.ret).m} |->
    [m |-> m2, ret |-> result.ret]
    ])])])])])

\* dc_double_to_frac approximating the real part twice
dc_double_to_frac_imag_from_real(m, c, max_denominator) ==
    Do([real_frac \in {df_from_double(m, m.obj[c].real, max_denominator)} |->
    Do([imag_frac \in {df_from_double(real_frac.m, m.obj[c].real, max_denominator)} |->
    Do([result \in {dc_frac_from_df(imag_frac.m, real_frac.ret, imag_frac.ret)} |->
    Do([m1 \in {df_release(result.m, real_frac.ret)} |->
    Do([m2 \in {df_release(m1, imag_frac.ret)} |->
    [m |-> m2, ret |-> result.ret]
    ])])])])])

\* asserts max_denominator > 0; c is finite
dc_double_to_frac(m, c, max_denominator) ==
    Do([real_frac \in {df_from_double(m, m.obj[c].real, max_denominator)} |->
    Do([imag_frac \in {df_from_double(real_frac.m, m.obj[c].imag, max_denominator)} |->
    Do([result \in {dc_frac_from_df(imag_frac.m, real_frac.ret, imag_frac.ret)} |->
    Do([m1 \in {df_release(result.m, real_frac.ret)} |->
    Do([m2 \in {df_release(m1, imag_frac.ret)} |->
    [m |-> m2, ret |-> result.ret]
    ])])])])])

----------------------------------------------------------------------------
(* Floating-point complex numbers: arithmetic and predicates *)

\* IEEE negation and addition of doubles
DoubleNeg(a) == <<-a[1], a[2]>>

DoubleAdd(a, b) ==
    IF IsNaN(a) \/ IsNaN(b) THEN NaN
    ELSE IF IsFinite(a) /\ IsFinite(b)
         THEN RoundToDouble(a[1] * b[2] + b[1] * a[2], a[2] * b[2])
    ELSE IF IsFinite(a) THEN b
    ELSE IF IsFinite(b) \/ a = b THEN a
    ELSE NaN

\* result->value = a->value + b->value, componentwise on double complex
dc_double_add(m, a, b) ==
    Do([result \in {DC_MALLOC(m, "double")} |->
    Do([m1 \in {DC_ATOMIC_STORE(result.m, result.ret, 1)} |->
    [m |-> [m1 EXCEPT !.obj[result.ret].real =
                          DoubleAdd(m.obj[a].real, m.obj[b].real),
                      !.obj[result.ret].imag =
                          DoubleAdd(m.obj[a].imag, m.obj[b].imag)],
     ret |-> result.ret]
    ])])

dc_double_negate(m, c) ==
    Do([result \in {DC_MALLOC(m, "double")} |->
    Do([m1 \in {DC_ATOMIC_STORE(result.m, result.ret, 1)} |->
    [m |-> [m1 EXCEPT !.obj[result.ret].real = DoubleNeg(m.obj[c].real),
                      !.obj[result.ret].imag = DoubleNeg(m.obj[c].imag)],
     ret |-> result.ret]
    ])])

\* result->value = conj(c->value)
dc_double_conj(m, c) ==
    Do([result \in {DC_MALLOC(m, "double")} |->
    Do([m1 \in {DC_ATOMIC_STORE(result.m, result.ret, 1)} |->
    [m |-> [m1 EXCEPT !.obj[result.ret].real = m.obj[c].real,
                      !.obj[result.ret].imag = DoubleNeg(m.obj[c].imag)],
     ret |-> result.ret]
    ])])

dc_double_is_real(m, c) == DoubleEq(m.obj[c].imag, <<0, 1>>)

----------------------------------------------------------------------------
(* String rendering.  A C string is the sequence of its characters.        *)

Digit(d) == <<"0", "1", "2", "3", "4", "5", "6", "7", "8", "9">>[d + 1]

\* the decimal digits of n >= 0
RECURSIVE Decimal(_)
Decimal(n) ==
    IF n < 10 THEN <<Digit(n)>> ELSE Decimal(n \div 10) \o <<Digit(n % 10)>>

\* the decimal text of the integer n
Signed(n) == IF n < 0 THEN <<"-">> \o Decimal(-n) ELSE Decimal(n)

\* di_to_string(a, base) of the integer engine, for base 10
di_to_string(m, a, base) == Signed(m.comp[a].val)

\* df_to_string of the rational engine: the reduced fraction as n/d, an
\* integer as n
df_to_string(m, a) ==
    IF m.comp[a].val[2] = 1 THEN Signed(m.comp[a].val[1])
    ELSE Signed(m.comp[a].val[1]) \o <<"/">> \o Decimal(m.comp[a].val[2])

\* the decimal digits after the point of n/d, 0 <= n < d, d a power of two
RECURSIVE Fraction(_, _)
Fraction(n, d) ==
    IF n = 0 THEN <<>>
    ELSE <<Digit((10 * n) \div d)>> \o Fraction((10 * n) % d, d)

\* sprintf("%g", v): the values of the model are below 10^6 in magnitude and
\* have at most six significant digits, where %g prints the plain decimal
\* without trailing zeros
FormatG(v) ==
    IF IsNaN(v) THEN <<"n", "a", "n">>
    ELSE IF ~IsFinite(v)
         THEN (IF v[1] < 0 THEN <<"-">> ELSE <<>>) \o <<"i", "n", "f">>
    ELSE (IF v[1] < 0 THEN <<"-">> ELSE <<>>)
            \o Decimal(Abs(v[1]) \div v[2])
            \o (IF Abs(v[1]) % v[2] = 0 THEN <<>>
                ELSE <<".">> \o Fraction(Abs(v[1]) % v[2], v[2]))

\* dc_int_to_string without the special case of a unit imaginary part after
\* a real part
dc_int_to_string_no_unit(m, c) ==
    Do([real_str \in {di_to_string(m, m.obj[c].real, 10)} |->
    Do([imag_str \in {di_to_string(m, m.obj[c].imag, 10)} |->
    Do([real_zero \in {di_is_zero(m, m.obj[c].real)} |->
    Do([imag_zero \in {di_is_zero(m, m.obj[c].imag)} |->
    Do([imag_neg \in {di_is_negative(m, m.obj[c].imag)} |->
    [m |-> m,
     ret |-> IF real_zero /\ imag_zero THEN <<"0">>
             ELSE IF imag_zero THEN real_str
             ELSE IF real_zero
                  THEN (IF imag_str = <<"1">> THEN <<"i">>
                        ELSE IF imag_str = <<"-", "1">> THEN <<"-", "i">>
                        ELSE imag_str \o <<"i">>)
             ELSE IF imag_neg THEN real_str \o imag_str \o <<"i">>
             ELSE real_str \o <<"+">> \o imag_str \o <<"i">>]
    ])])])])])

\* the returned text is the caller's; real_str and imag_str are freed
dc_int_to_string(m, c) ==
    Do([real_str \in {di_to_string(m, m.obj[c].real, 10)} |->
    Do([imag_str \in {di_to_string(m, m.obj[c].imag, 10)} |->
    Do([real_zero \in {di_is_zero(m, m.obj[c].real)} |->
    Do([imag_zero \in {di_is_zero(m, m.obj[c].imag)} |->
    Do([imag_neg \in {di_is_negative(m, m.obj[c].imag)} |->
    [m |-> m,
     ret |-> IF real_zero /\ imag_zero THEN <<"0">>
             ELSE IF imag_zero THEN real_str
             ELSE IF real_zero
                  THEN (IF imag_str = <<"1">> THEN <<"i">>
                        ELSE IF imag_str = <<"-", "1">> THEN <<"-", "i">>
                        ELSE imag_str \o <<"i">>)
             ELSE IF imag_str = <<"1">> THEN real_str \o <<"+", "i">>
             ELSE IF imag_str = <<"-", "1">> THEN real_str \o <<"-", "i">>
             ELSE IF imag_neg THEN real_str \o imag_str \o <<"i">>
             ELSE real_str \o <<"+">> \o imag_str \o <<"i">>]
    ])])])])])

dc_frac_to_string(m, c) ==
    Do([real_str \in {df_to_string(m, m.obj[c].real)} |->
    Do([imag_str \in {df_to_string(m, m.obj[c].imag)} |->
    Do([real_zero \in {df_is_zero(m, m.obj[c].real)} |->
    Do([imag_zero \in {df_is_zero(m, m.obj[c].imag)} |->
    Do([imag_neg \in {df_is_negative(m, m.obj[c].imag)} |->
    IF real_zero /\ imag_zero THEN [m |-> m, ret |-> <<"0">>]
    ELSE IF imag_zero THEN [m |-> m, ret |-> real_str]
    ELSE Do([one \in {df_one(m)} |->
         Do([neg_one \in {df_neg_one(one.m)} |->
         Do([result \in {
                IF real_zero
                THEN (IF df_cmp(neg_one.m, m.obj[c].imag, one.ret) = 0
                      THEN <<"i">>
                      ELSE IF df_cmp(neg_one.m, m.obj[c].imag, neg_one.ret) = 0
                      THEN <<"-", "i">>
                      ELSE imag_str \o <<"i">>)
                ELSE (IF df_cmp(neg_one.m, m.obj[c].imag, one.ret) = 0
                      THEN real_str \o <<"+", "i">>
                      ELSE IF df_cmp(neg_one.m, m.obj[c].imag, neg_one.ret) = 0
                      THEN real_str \o <<"-", "i">>
                      ELSE IF imag_neg THEN real_str \o imag_str \o <<"i">>
                      ELSE real_str \o <<"+">> \o imag_str \o <<"i">>)} |->
         Do([m1 \in {df_release(neg_one.m, one.ret)} |->
         Do([m2 \in {df_release(m1, neg_one.ret)} |->
         [m |-> m2, ret |-> result]
         ])])])])])
    ])])])])])

\* dc_double_is_zero with || for &&
dc_double_is_zero_either(m, c) ==
    DoubleEq(m.obj[c].real, <<0, 1>>) \/ DoubleEq(m.obj[c].imag, <<0, 1>>)

dc_double_is_zero(m, c) ==
    DoubleEq(m.obj[c].real, <<0, 1>>) /\ DoubleEq(m.obj[c].imag, <<0, 1>>)

\* real < 0 on a double
DoubleNegative(a) == ~IsNaN(a) /\ a[1] < 0

\* dc_double_to_string without the case of a negative imaginary part
dc_double_to_string_always_plus(m, c) ==
    Do([real \in {m.obj[c].real} |->
    Do([imag \in {m.obj[c].imag} |->
    [m |-> m,
     ret |-> IF DoubleEq(real, <<0, 1>>) /\ DoubleEq(imag, <<0, 1>>) THEN <<"0">>
             ELSE IF DoubleEq(imag, <<0, 1>>) THEN FormatG(real)
             ELSE IF DoubleEq(real, <<0, 1>>)
                  THEN (IF DoubleEq(imag, <<1, 1>>) THEN <<"i">>
                        ELSE IF DoubleEq(imag, <<-1, 1>>) THEN <<"-", "i">>
                        ELSE FormatG(imag) \o <<"i">>)
             ELSE IF DoubleEq(imag, <<1, 1>>) THEN FormatG(real) \o <<"+", "i">>
             ELSE IF DoubleEq(imag, <<-1, 1>>) THEN FormatG(real) \o <<"-", "i">>
             ELSE FormatG(real) \o <<"+">> \o FormatG(imag) \o <<"i">>]
    ])])

dc_double_to_string(m, c) ==
    Do([real \in {m.obj[c].real} |->
    Do([imag \in {m.obj[c].imag} |->
    [m |-> m,
     ret |-> IF DoubleEq(real, <<0, 1>>) /\ DoubleEq(imag, <<0, 1>>) THEN <<"0">>
             ELSE IF DoubleEq(imag, <<0, 1>>) THEN FormatG(real)
             ELSE IF DoubleEq(real, <<0, 1>>)
                  THEN (IF DoubleEq(imag, <<1, 1>>) THEN <<"i">>
                        ELSE IF DoubleEq(imag, <<-1, 1>>) THEN <<"-", "i">>
                        ELSE FormatG(imag) \o <<"i">>)
             ELSE IF DoubleEq(imag, <<1, 1>>) THEN FormatG(real) \o <<"+", "i">>
             ELSE IF DoubleEq(imag, <<-1, 1>>) THEN FormatG(real) \o <<"-", "i">>
             ELSE IF DoubleNegative(imag) THEN FormatG(real) \o FormatG(imag) \o <<"i">>
             ELSE FormatG(real) \o <<"+">> \o FormatG(imag) \o <<"i">>]
    ])])

----------------------------------------------------------------------------
(* Component accessors, floating division, conversion to floating point *)

\* dc_int_real as the header documents it: a new integer of the same value
dc_int_real_new_object(m, c) == di_from_int64(m, m.comp[m.obj[c].real].val)

dc_int_real(m, c) == di_retain(m, m.obj[c].real)

dc_int_imag(m, c) == di_retain(m, m.obj[c].imag)

dc_frac_real(m, c) == df_retain(m, m.obj[c].real)

\* dc_frac_imag without the df_retain
dc_frac_imag_borrowed(m, c) == [m |-> m, ret |-> m.obj[c].imag]

dc_frac_imag(m, c) == df_retain(m, m.obj[c].imag)

\* a->value / b->value on double complex, b not zero: each component of the
\* quotient ((pr + qs) + (qr - ps)i) / (r*r + s*s) as the double nearest to
\* it; NaN when an operand is not finite
DoubleComplexDiv(p, q, r, s) ==
    IF ~(IsFinite(p) /\ IsFinite(q) /\ IsFinite(r) /\ IsFinite(s))
    THEN <<NaN, NaN>>
    ELSE LET D == p[2] * q[2] * r[2] * s[2]
             P == p[1] * q[2] * r[2] * s[2]
             Q == q[1] * p[2] * r[2] * s[2]
             R == r[1] * p[2] * q[2] * s[2]
             S == s[1] * p[2] * q[2] * r[2]
         IN  <<RoundToDouble(P * R + Q * S, R * R + S * S),
               RoundToDouble(Q * R - P * S, R * R + S * S)>>

\* asserts that b is not zero
dc_double_div(m, a, b) ==
    Do([result \in {DC_MALLOC(m, "double")} |->
    Do([m1 \in {DC_ATOMIC_STORE(result.m, result.ret, 1)} |->
    Do([value \in {DoubleComplexDiv(m.obj[a].real, m.obj[a].imag,
                                    m.obj[b].real, m.obj[b].imag)} |->
    [m |-> [m1 EXCEPT !.obj[result.ret].real = value[1],
                      !.obj[result.ret].imag = value[2]],
     ret |-> result.ret]
    ])])])

dc_int_to_double(m, c) ==
    Do([real \in {di_to_double(m, m.obj[c].real)} |->
    Do([imag \in {di_to_double(m, m.obj[c].imag)} |->
    dc_double_from_doubles(m, real, imag)
    ])])

----------------------------------------------------------------------------
(* The caller.  h holds the caller's handle variables; a call is made with *)
(* the function of the handle's static type.  last records the call that   *)
(* led to the current state: op, the instance id it returned or released,  *)
(* the operand src of a retain or copy, the reference count old that the   *)
(* operand (retain, copy, release) or the returned singleton (accessor)    *)
(* had before the call, the handle variable var that received the result   *)
(* or was released, and whether the returned instance is newly allocated.  *)

Handles == 1..NumHandles

None == [type |-> "none"]

NoResult == [op |-> "none"]

retain(m, c) ==
    CASE m.obj[c].type = "int" -> dc_int_retain(m, c)
      [] m.obj[c].type = "frac" -> dc_frac_retain(m, c)
      [] m.obj[c].type = "double" -> dc_double_retain(m, c)

release(m, c) ==
    CASE m.obj[c].type = "int" -> dc_int_release(m, c)
      [] m.obj[c].type = "frac" -> dc_frac_release(m, c)
      [] m.obj[c].type = "double" -> dc_double_release(m, c)

copy(m, c) ==
    CASE m.obj[c].type = "int" -> dc_int_copy(m, c)
      [] m.obj[c].type = "frac" -> dc_frac_copy(m, c)
      [] m.obj[c].type = "double" -> dc_double_copy(m, c)

eq(m, a, b) ==
    CASE m.obj[a].type = "int" -> dc_int_eq(m, a, b)
      [] m.obj[a].type = "frac" -> dc_frac_eq(m, a, b)
      [] m.obj[a].type = "double" -> dc_double_eq(m, a, b)

mul(m, a, b) ==
    CASE m.obj[a].type = "int" -> dc_int_mul(m, a, b)
      [] m.obj[a].type = "frac" -> dc_frac_mul(m, a, b)

is_zero(m, c) ==
    CASE m.obj[c].type = "int" -> dc_int_is_zero(m, c)
      [] m.obj[c].type = "frac" -> dc_frac_is_zero(m, c)

singleton(m, type, k) ==
    CASE type = "int" -> dc_int_singleton(m, k)
      [] type = "frac" -> dc_frac_singleton(m, k)
      [] type = "double" -> dc_double_singleton(m, k)

\* the arguments the caller gives the constructors in Spec
IntInputs == {<<0, 0>>}

FracInputs == {<<6, -4, 1, 2>>}

DoubleInputs == {<<NaN, <<1, 2>>>>}

Init ==
    /\ mem = EmptyMem
    /\ h = [v \in Handles |-> NULL]
    /\ last = [op |-> "init", id |-> NULL, src |-> NULL, old |-> 0, var |-> NULL,
               fresh |-> FALSE]
    /\ x = None
    /\ y = None
    /\ res = NoResult

\* v = constructor(...), v = singleton accessor(), v = copy(w)
Returned(v, r, op, src) ==
    /\ Len(r.m.obj) <= MaxObj
    /\ mem' = r.m
    /\ h' = [h EXCEPT ![v] = r.ret]
    /\ last' = [op |-> op, id |-> r.ret, src |-> src, var |-> v,
                old |-> IF src # NULL THEN mem.obj[src].ref_count
                        ELSE IF r.ret \in 1..Len(mem.obj)
                             THEN mem.obj[r.ret].ref_count ELSE 0,
                fresh |-> r.ret \notin 1..Len(mem.obj)]
    /\ UNCHANGED <<x, y, res>>

\* A run works with one of the three types: the functions of a type touch
\* only the instances and the five slots of that type.
OneType(type) == \A c \in 1..Len(mem.obj) : mem.obj[c].type = type

NewInt(v) ==
    /\ h[v] = NULL
    /\ OneType("int")
    /\ \E i \in IntInputs :
          Returned(v, dc_int_from_ints(mem, i[1], i[2]), "new", NULL)

NewFrac(v) ==
    /\ h[v] = NULL
    /\ OneType("frac")
    /\ \E i \in FracInputs :
          Returned(v, dc_frac_from_ints(mem, i[1], i[2], i[3], i[4]), "new", NULL)

NewDouble(v) ==
    /\ h[v] = NULL
    /\ OneType("double")
    /\ \E i \in DoubleInputs :
          Returned(v, dc_double_from_doubles(mem, i[1], i[2]), "new", NULL)

\* v = dc_<type>_<k>()
Accessor(v) ==
    /\ h[v] = NULL
    /\ \E type \in Types, k \in Kinds :
          /\ OneType(type)
          /\ Returned(v, singleton(mem, type, k), "accessor", NULL)

\* w = dc_<type>_retain(v)
Retain(v, w) ==
    /\ h[v] # NULL
    /\ Alive(mem, h[v])
    /\ h[w] = NULL
    /\ ~IsSingleton(mem, h[v]) => mem.obj[h[v]].ref_count < SIZE_MAX
    /\ Returned(w, retain(mem, h[v]), "retain", h[v])

\* dc_<type>_release(&v)
Release(v) ==
    /\ h[v] # NULL
    /\ Alive(mem, h[v])
    /\ LET r == release(mem, h[v])
       IN  /\ mem' = r.m
           /\ h' = [h EXCEPT ![v] = r.ret]
           /\ last' = [op |-> "release", id |-> h[v], src |-> NULL, var |-> v,
                       old |-> mem.obj[h[v]].ref_count, fresh |-> FALSE]
    /\ UNCHANGED <<x, y, res>>

\* t = v; dc_<type>_release(&t): the caller releases a singleton through a
\* temporary, keeping v, so that releases outnumber the accessor calls.  (An
\* ordinary instance is released once per reference the caller holds.)
ReleaseBorrowed(v) ==
    /\ h[v] # NULL
    /\ IsSingleton(mem, h[v])
    /\ Alive(mem, h[v])
    /\ LET r == release(mem, h[v])
       IN  /\ mem' = r.m
           /\ last' = [op |-> "release", id |-> h[v], src |-> NULL, var |-> NULL,
                       old |-> mem.obj[h[v]].ref_count, fresh |-> FALSE]
    /\ UNCHANGED <<h, x, y, res>>

\* w = dc_<type>_copy(v)
Copy(v, w) ==
    /\ h[v] # NULL
    /\ Alive(mem, h[v])
    /\ h[w] = NULL
    /\ Returned(w, copy(mem, h[v]), "copy", h[v])

Next ==
    \/ \E v \in Handles : NewInt(v)
    \/ \E v \in Handles : NewFrac(v)
    \/ \E v \in Handles : NewDouble(v)
    \/ \E v \in Handles : Accessor(v)
    \/ \E v, w \in Handles : Retain(v, w)
    \/ \E v \in Handles : Release(v)
    \/ \E v, w \in Handles : Copy(v, w)

Spec == Init /\ [][Next]_vars

\* a caller that takes and releases singletons only, and releases them more
\* often than it took them; releasing through temporaries, it needs one
\* handle variable fewer
OverHandles == 1..(NumHandles - 1)

NextOver ==
    \/ \E v \in OverHandles : Accessor(v) /\ Len(mem'.obj) <= MaxSingletons
    \/ \E v \in OverHandles : Release(v)
    \/ \E v \in OverHandles : ReleaseBorrowed(v)

SpecOver == Init /\ [][NextOver]_vars

----------------------------------------------------------------------------
(* A caller that computes.  It keeps every handle it is given in a handle  *)
(* variable of its own (the first one that is free), passes its handles to *)
(* the operations, with the same handle for both operands too, and         *)
(* releases them one by one.  last records the call that led to the        *)
(* current state: op, the instance id it returned or released and the      *)
(* operand instances src and src2.                                         *)

\* the caller's handle variables
OpsHandles == 1..3

\* the kinds of singleton this caller asks for
OpsKinds == {"one"}

InitOps ==
    /\ mem = EmptyMem
    /\ h = [v \in OpsHandles |-> NULL]
    /\ last = [op |-> "init", id |-> NULL, src |-> NULL, src2 |-> NULL]
    /\ x = None
    /\ y = None
    /\ res = NoResult

add(m, a, b) ==
    CASE m.obj[a].type = "int" -> dc_int_add(m, a, b)
      [] m.obj[a].type = "frac" -> dc_frac_add(m, a, b)
      [] m.obj[a].type = "double" -> dc_double_add(m, a, b)

div(m, a, b) ==
    CASE m.obj[a].type = "int" -> dc_int_div(m, a, b)
      [] m.obj[a].type = "frac" -> dc_frac_div(m, a, b)

conj(m, c) ==
    CASE m.obj[c].type = "int" -> dc_int_conj(m, c)
      [] m.obj[c].type = "frac" -> dc_frac_conj(m, c)
      [] m.obj[c].type = "double" -> dc_double_conj(m, c)

is_real(m, c) ==
    CASE m.obj[c].type = "int" -> dc_int_is_real(m, c)
      [] m.obj[c].type = "frac" -> dc_frac_is_real(m, c)
      [] m.obj[c].type = "double" -> dc_double_is_real(m, c)

\* the handle variable that receives the next result
FreeVar ==
    IF \E v \in OpsHandles : h[v] = NULL
    THEN CHOOSE v \in OpsHandles : h[v] = NULL /\ \A w \in 1..(v - 1) : h[w] # NULL
    ELSE NULL

\* the caller's handle v can be passed to an operation
Usable(v) == h[v] # NULL /\ Alive(mem, h[v])

SameType(u, v) == mem.obj[h[u]].type = mem.obj[h[v]].type

\* FreeVar = op(a, b), r the outcome of the call
Called(r, op, a, b) ==
    /\ FreeVar # NULL
    /\ Len(r.m.obj) > Len(mem.obj) => Len(mem.obj) < MaxOpsObj
    /\ mem' = r.m
    /\ h' = [h EXCEPT ![FreeVar] = r.ret]
    /\ last' = [op |-> op, id |-> r.ret, src |-> a, src2 |-> b]
    /\ UNCHANGED <<x, y, res>>

\* dc_<type>_release(&v)
OpsRelease(v) ==
    /\ Usable(v)
    /\ LET r == release(mem, h[v])
       IN  /\ mem' = r.m
           /\ h' = [h EXCEPT ![v] = r.ret]
           /\ last' = [op |-> "release", id |-> h[v], src |-> NULL, src2 |-> NULL]
    /\ UNCHANGED <<x, y, res>>

OpsNewInt ==
    /\ OneType("int")
    /\ \E i \in IntInputs : Called(dc_int_from_ints(mem, i[1], i[2]), "new", NULL, NULL)

OpsNewFrac ==
    /\ OneType("frac")
    /\ \E i \in FracInputs :
       Called(dc_frac_from_ints(mem, i[1], i[2], i[3], i[4]), "new", NULL, NULL)

OpsNewDouble ==
    /\ OneType("double")
    /\ \E i \in DoubleInputs :
       Called(dc_double_from_doubles(mem, i[1], i[2]), "new", NULL, NULL)

OpsAccessor ==
    \E type \in Types, k \in OpsKinds :
       /\ OneType(type)
       /\ Called(singleton(mem, type, k), "accessor", NULL, NULL)

OpsRetain(v) ==
    /\ Usable(v)
    /\ ~IsSingleton(mem, h[v]) => mem.obj[h[v]].ref_count < SIZE_MAX
    /\ Called(retain(mem, h[v]), "retain", h[v], NULL)

OpsCopy(v) ==
    /\ Usable(v)
    /\ Called(copy(mem, h[v]), "copy", h[v], NULL)

OpsAdd(u, v) ==
    /\ Usable(u) /\ Usable(v) /\ SameType(u, v)
    /\ Called(add(mem, h[u], h[v]), "add", h[u], h[v])

OpsMul(u, v) ==
    /\ Usable(u) /\ Usable(v) /\ SameType(u, v)
    /\ mem.obj[h[u]].type # "double"
    /\ Called(mul(mem, h[u], h[v]), "mul", h[u], h[v])

\* the divisor is asserted not to be zero
OpsDiv(u, v) ==
    /\ Usable(u) /\ Usable(v) /\ SameType(u, v)
    /\ mem.obj[h[u]].type # "double"
    /\ ~is_zero(mem, h[v])
    /\ Called(div(mem, h[u], h[v]), "div", h[u], h[v])

OpsConj(v) ==
    /\ Usable(v)
    /\ Called(conj(mem, h[v]), "conj", h[v], NULL)

OpsReciprocal(v) ==
    /\ Usable(v)
    /\ mem.obj[h[v]].type = "frac"
    /\ ~dc_frac_is_zero(mem, h[v])
    /\ Called(dc_frac_reciprocal(mem, h[v]), "reciprocal", h[v], NULL)

OpsIntToFrac(v) ==
    /\ Usable(v)
    /\ mem.obj[h[v]].type = "int"
    /\ Called(dc_int_to_frac(mem, h[v]), "to_frac", h[v], NULL)

OpsFracToInt(v) ==
    /\ Usable(v)
    /\ mem.obj[h[v]].type = "frac"
    /\ Called(dc_frac_to_int(mem, h[v]), "to_int", h[v], NULL)

\* the operand is asserted to be finite
OpsDoubleToFrac(v) ==
    /\ Usable(v)
    /\ mem.obj[h[v]].type = "double"
    /\ IsFinite(mem.obj[h[v]].real) /\ IsFinite(mem.obj[h[v]].imag)
    /\ \E max_denominator \in 1..MaxDen :
          Called(dc_double_to_frac(mem, h[v], max_denominator), "to_frac",
                 h[v], NULL)

NextOps ==
    \/ OpsNewInt
    \/ OpsNewFrac
    \/ OpsNewDouble
    \/ OpsAccessor
    \/ \E v \in OpsHandles : OpsRetain(v)
    \/ \E v \in OpsHandles : OpsRelease(v)
    \/ \E v \in OpsHandles : OpsCopy(v)
    \/ \E u, v \in OpsHandles : OpsAdd(u, v)
    \/ \E u, v \in OpsHandles : OpsMul(u, v)
    \/ \E u, v \in OpsHandles : OpsDiv(u, v)
    \/ \E v \in OpsHandles : OpsConj(v)
    \/ \E v \in OpsHandles : OpsReciprocal(v)
    \/ \E v \in OpsHandles : OpsIntToFrac(v)
    \/ \E v \in OpsHandles : OpsFracToInt(v)
    \/ \E v \in OpsHandles : OpsDoubleToFrac(v)

SpecOps == InitOps /\ [][NextOps]_vars

----------------------------------------------------------------------------
(* A caller that passes invalid arguments: NULL handles, zero divisors, a  *)
(* max_denominator that is not positive, NULL pointers to release.         *)
(* DC_ASSERT is assert: a failed assertion aborts the process, so that no  *)
(* call follows it.  last records the call: the function op, its arguments *)
(* args, the pointer ptr given to a release, whether an assertion failed,  *)
(* the heap before the call and after it, and what the call returned.      *)
(* A run works with one of the three types and what it converts to.        *)

\* the functions, the type of their handle operands, the number n of those,
\* and what they return
PreOps ==
    {[f |-> f, type |-> "int", n |-> 1, gives |-> "handle"] :
        f \in {"dc_int_retain", "dc_int_copy", "dc_int_negate", "dc_int_conj",
               "dc_int_to_frac", "dc_int_to_double"}}
    \cup {[f |-> f, type |-> "int", n |-> 2, gives |-> "handle"] :
        f \in {"dc_int_add", "dc_int_sub", "dc_int_mul", "dc_int_div"}}
    \cup {[f |-> f, type |-> "int", n |-> 1, gives |-> "di"] :
        f \in {"dc_int_real", "dc_int_imag"}}
    \cup {[f |-> f, type |-> "int", n |-> 1, gives |-> "value"] :
        f \in {"dc_int_is_zero", "dc_int_is_real", "dc_int_to_string"}}
    \cup {[f |-> "dc_int_eq", type |-> "int", n |-> 2, gives |-> "value"]}
    \cup {[f |-> f, type |-> "frac", n |-> 1, gives |-> "handle"] :
        f \in {"dc_frac_retain", "dc_frac_copy", "dc_frac_negate",
               "dc_frac_conj", "dc_frac_reciprocal", "dc_frac_to_int"}}
    \cup {[f |-> f, type |-> "frac", n |-> 2, gives |-> "handle"] :
        f \in {"dc_frac_add", "dc_frac_sub", "dc_frac_mul", "dc_frac_div"}}
    \cup {[f |-> f, type |-> "frac", n |-> 1, gives |-> "df"] :
        f \in {"dc_frac_real", "dc_frac_imag"}}
    \cup {[f |-> f, type |-> "frac", n |-> 1, gives |-> "value"] :
        f \in {"dc_frac_is_zero", "dc_frac_is_real", "dc_frac_is_gaussian_int",
               "dc_frac_to_string"}}
    \cup {[f |-> "dc_frac_eq", type |-> "frac", n |-> 2, gives |-> "value"]}
    \cup {[f |-> f, type |-> "double", n |-> 1, gives |-> "handle"] :
        f \in {"dc_double_retain", "dc_double_copy", "dc_double_negate",
               "dc_double_conj"}}
    \cup {[f |-> f, type |-> "double", n |-> 2, gives |-> "handle"] :
        f \in {"dc_double_add", "dc_double_div"}}
    \cup {[f |-> f, type |-> "double", n |-> 1, gives |-> "value"] :
        f \in {"dc_double_is_zero", "dc_double_is_real", "dc_double_to_string"}}
    \cup {[f |-> "dc_double_eq", type |-> "double", n |-> 2, gives |-> "value"]}

\* the DC_ASSERT lines at the head of the function f: every handle operand
\* (the first n arguments) is not NULL, then the assertion on the values
Precondition(f, n, m, args) ==
    /\ \A k \in 1..n : args[k] # NULL
    /\ f = "dc_frac_div" => ~dc_frac_is_zero(m, args[2])
    /\ f = "dc_frac_reciprocal" => ~dc_frac_is_zero(m, args[1])
    /\ f = "dc_double_div" => ~dc_double_is_zero(m, args[2])
    /\ f = "dc_double_to_frac" => args[2] > 0

\* the body of the function f
Invoke(f, m, a) ==
    CASE f = "dc_int_from_di" -> dc_int_from_di(m, a[1], a[2])
      [] f = "dc_int_retain" -> dc_int_retain(m, a[1])
      [] f = "dc_int_copy" -> dc_int_copy(m, a[1])
      [] f = "dc_int_add" -> dc_int_add(m, a[1], a[2])
      [] f = "dc_int_sub" -> dc_int_sub(m, a[1], a[2])
      [] f = "dc_int_mul" -> dc_int_mul(m, a[1], a[2])
      [] f = "dc_int_div" -> dc_int_div(m, a[1], a[2])
      [] f = "dc_int_negate" -> dc_int_negate(m, a[1])
      [] f = "dc_int_conj" -> dc_int_conj(m, a[1])
      [] f = "dc_int_real" -> dc_int_real(m, a[1])
      [] f = "dc_int_imag" -> dc_int_imag(m, a[1])
      [] f = "dc_int_eq" -> [m |-> m, ret |-> dc_int_eq(m, a[1], a[2])]
      [] f = "dc_int_is_zero" -> [m |-> m, ret |-> dc_int_is_zero(m, a[1])]
      [] f = "dc_int_is_real" -> [m |-> m, ret |-> dc_int_is_real(m, a[1])]
      [] f = "dc_int_to_string" -> dc_int_to_string(m, a[1])
      [] f = "dc_int_to_frac" -> dc_int_to_frac(m, a[1])
      [] f = "dc_int_to_double" -> dc_int_to_double(m, a[1])
      [] f = "dc_frac_from_df" -> dc_frac_from_df(m, a[1], a[2])
      [] f = "dc_frac_retain" -> dc_frac_retain(m, a[1])
      [] f = "dc_frac_copy" -> dc_frac_copy(m, a[1])
      [] f = "dc_frac_add" -> dc_frac_add(m, a[1], a[2])
      [] f = "dc_frac_sub" -> dc_frac_sub(m, a[1], a[2])
      [] f = "dc_frac_mul" -> dc_frac_mul(m, a[1], a[2])
      [] f = "dc_frac_div" -> dc_frac_div(m, a[1], a[2])
      [] f = "dc_frac_negate" -> dc_frac_negate(m, a[1])
      [] f = "dc_frac_conj" -> dc_frac_conj(m, a[1])
      [] f = "dc_frac_reciprocal" -> dc_frac_reciprocal(m, a[1])
      [] f = "dc_frac_real" -> dc_frac_real(m, a[1])
      [] f = "dc_frac_imag" -> dc_frac_imag(m, a[1])
      [] f = "dc_frac_eq" -> [m |-> m, ret |-> dc_frac_eq(m, a[1], a[2])]
      [] f = "dc_frac_is_zero" -> [m |-> m, ret |-> dc_frac_is_zero(m, a[1])]
      [] f = "dc_frac_is_real" -> [m |-> m, ret |-> dc_frac_is_real(m, a[1])]
      [] f = "dc_frac_is_gaussian_int" ->
            [m |-> m, ret |-> dc_frac_is_gaussian_int(m, a[1])]
      [] f = "dc_frac_to_string" -> dc_frac_to_string(m, a[1])
      [] f = "dc_frac_to_int" -> dc_frac_to_int(m, a[1])
      [] f = "dc_double_retain" -> dc_double_retain(m, a[1])
      [] f = "dc_double_copy" -> dc_double_copy(m, a[1])
      [] f = "dc_double_add" -> dc_double_add(m, a[1], a[2])
      [] f = "dc_double_div" -> dc_double_div(m, a[1], a[2])
      [] f = "dc_double_negate" -> dc_double_negate(m, a[1])
      [] f = "dc_double_conj" -> dc_double_conj(m, a[1])
      [] f = "dc_double_eq" -> [m |-> m, ret |-> dc_double_eq(m, a[1], a[2])]
      [] f = "dc_double_is_zero" -> [m |-> m, ret |-> dc_double_is_zero(m, a[1])]
      [] f = "dc_double_is_real" -> [m |-> m, ret |-> dc_double_is_real(m, a[1])]
      [] f = "dc_double_to_string" -> dc_double_to_string(m, a[1])
      [] f = "dc_double_to_frac" -> dc_double_to_frac(m, a[1], a[2])

\* the heap when dc_int_div(a, b) reaches dc_frac_div(af, bf), and whether
\* the assertions of dc_frac_div hold there
dc_int_div_promoted(m, a, b) ==
    Do([af \in {dc_int_to_frac(m, a)} |->
    Do([bf \in {dc_int_to_frac(af.m, b)} |->
    [m |-> bf.m, ok |-> Precondition("dc_frac_div", 2, bf.m, <<af.ret, bf.ret>>)]
    ])])

\* a failed DC_ASSERT that returns NULL to the caller
abort_returns(m) == [aborted |-> FALSE, m |-> m, ret |-> NULL]

\* a failed DC_ASSERT (assert of <assert.h>): the process is aborted on the
\* heap m, nothing is returned
abort(m) == [aborted |-> TRUE, m |-> m, ret |-> NULL]

\* the call f(args) on the heap m: an assertion of f fails, or an assertion
\* of the dc_frac_div that dc_int_div calls, or f returns
Call(f, n, m, args) ==
    IF ~Precondition(f, n, m, args) THEN abort(m)
    ELSE IF f = "dc_int_div" /\ ~dc_int_div_promoted(m, args[1], args[2]).ok
    THEN abort(dc_int_div_promoted(m, args[1], args[2]).m)
    ELSE Do([r \in {Invoke(f, m, args)} |->
         [aborted |-> FALSE, m |-> r.m, ret |-> r.ret]
         ])

\* the release function of a type, given the value of *c
release_of(type, m, c) ==
    CASE type = "int" -> dc_int_release(m, c)
      [] type = "frac" -> dc_frac_release(m, c)
      [] type = "double" -> dc_double_release(m, c)

IntPre == {<<0, 0>>, <<0, 2>>}

FracPre == {<<0, 1, 0, 1>>, <<1, 2, -1, 1>>, <<0, 1, 1, 2>>}

DoublePre == {<<(<<0, 1>>), (<<0, 1>>)>>, <<(<<0, 1>>), (<<-3, 2>>)>>}

InitPre ==
    /\ mem = EmptyMem
    /\ h = [v \in OpsHandles |-> NULL]
    /\ last = [op |-> "init", args |-> <<>>, ptr |-> NULL, aborted |-> FALSE,
               before |-> EmptyMem, after |-> EmptyMem, ret |-> NULL]
    /\ x = None
    /\ y = None
    /\ res = NoResult

Running == ~last.aborted

\* the argument for the operand taken from the handle variable u, or the
\* constant NULL
Arg(u) == IF u = NULL THEN NULL ELSE h[u]

\* the handle variable u holds a live instance of the type, or holds NULL, or
\* the argument is the constant NULL
Passes(u, type) ==
    Arg(u) # NULL => Alive(mem, Arg(u)) /\ mem.obj[Arg(u)].type = type

\* the caller's record of the call f(args) with the outcome r on the heap m
Outcome(f, args, m, r) ==
    [op |-> f, args |-> args, ptr |-> NULL, aborted |-> r.aborted,
     before |-> m, after |-> r.m, ret |-> r.ret]

PreNew ==
    /\ Running
    /\ FreeVar # NULL
    /\ Len(mem.obj) < MaxPreObj
    /\ \E type \in {t \in Types : Len(mem.obj) > 0 => mem.obj[1].type = t} :
       \E r \in IF type = "int"
                THEN {dc_int_from_ints(mem, i[1], i[2]) : i \in IntPre}
                ELSE IF type = "frac"
                THEN {dc_frac_from_ints(mem, i[1], i[2], i[3], i[4]) : i \in FracPre}
                ELSE {dc_double_from_doubles(mem, i[1], i[2]) : i \in DoublePre} :
          /\ mem' = r.m
          /\ h' = [h EXCEPT ![FreeVar] = r.ret]
          /\ last' = [op |-> "new", args |-> <<>>, ptr |-> NULL,
                      aborted |-> FALSE, before |-> r.m, after |-> r.m,
                      ret |-> r.ret]
    /\ UNCHANGED <<x, y, res>>

\* what the caller does with what a call gave it: t = f(...);
\* dc_<type>_release(&t) for an instance, di_release(&t) or df_release(&t)
\* for a component (each does nothing for a NULL t), nothing for a value
Discard(gives, r) ==
    IF r.aborted \/ gives = "value" THEN r.m
    ELSE IF r.ret = NULL THEN r.m
    ELSE IF gives = "handle" THEN release_of(r.m.obj[r.ret].type, r.m, r.ret).m
    ELSE IF gives \in {"di", "df"} THEN EngineRelease(r.m, r.ret)
    ELSE r.m

\* a caller makes a call that allocates and returns while at most MaxPreObj
\* instances and at most 2 * MaxPreObj components have been allocated
Room(r) ==
    (~r.aborted /\ (Len(r.m.obj) > Len(mem.obj) \/ Len(r.m.comp) > Len(mem.comp)))
       => Len(mem.obj) <= MaxPreObj /\ Len(mem.comp) <= 2 * MaxPreObj

\* t = f(u) or f(u, v), the result discarded
PreCall(o, u, v) ==
    /\ Running
    /\ o.n = 1 => v = NULL
    /\ Passes(u, o.type)
    /\ Passes(v, o.type)
    /\ (o.f \in {"dc_int_retain", "dc_frac_retain", "dc_double_retain"}
          /\ Arg(u) # NULL) => mem.obj[Arg(u)].ref_count < SIZE_MAX
    /\ \E args \in {IF o.n = 1 THEN <<Arg(u)>> ELSE <<Arg(u), Arg(v)>>} :
       \E r \in {Call(o.f, o.n, mem, args)} :
          /\ Room(r)
          /\ last' = Outcome(o.f, args, mem, r)
          /\ mem' = Discard(o.gives, r)
    /\ UNCHANGED <<h, x, y, res>>

\* real = di_from_int64(1) or NULL; imag = di_from_int64(1) or NULL;
\* t = dc_int_from_di(real, imag); di_release(&real); di_release(&imag);
\* dc_int_release(&t) (df_one, dc_frac_from_df, df_release, dc_frac_release
\* for the rational type)
PreFromParts(type, real_null, imag_null) ==
    /\ Running
    /\ Len(mem.obj) > 0 => mem.obj[1].type = type
    /\ Len(mem.obj) < MaxPreObj
    /\ Len(mem.comp) < 2 * MaxPreObj
    /\ \E f \in {IF type = "int" THEN "dc_int_from_di" ELSE "dc_frac_from_df"} :
       \E real \in {IF real_null THEN [m |-> mem, ret |-> NULL]
                    ELSE IF type = "int" THEN di_from_int64(mem, 1)
                    ELSE df_one(mem)} :
       \E imag \in {IF imag_null THEN [m |-> real.m, ret |-> NULL]
                    ELSE IF type = "int" THEN di_from_int64(real.m, 1)
                    ELSE df_one(real.m)} :
       \E r \in {Call(f, 2, imag.m, <<real.ret, imag.ret>>)} :
          /\ last' = Outcome(f, <<real.ret, imag.ret>>, imag.m, r)
          /\ mem' = IF r.aborted THEN r.m
                    ELSE Discard("handle",
                            [r EXCEPT !.m = EngineRelease(
                                               EngineRelease(r.m, real.ret),
                                               imag.ret)])
    /\ UNCHANGED <<h, x, y, res>>

\* t = dc_double_to_frac(u, max_denominator); dc_frac_release(&t)
PreDoubleToFrac(u, max_denominator) ==
    /\ Running
    /\ Passes(u, "double")
    /\ \E args \in {<<Arg(u), max_denominator>>} :
       \E r \in {Call("dc_double_to_frac", 1, mem, args)} :
          /\ Room(r)
          /\ last' = Outcome("dc_double_to_frac", args, mem, r)
          /\ mem' = Discard("handle", r)
    /\ UNCHANGED <<h, x, y, res>>

\* dc_<type>_release(p), p the address of the handle variable p or NULL
PreRelease(type, p) ==
    /\ Running
    /\ Passes(p, type)
    /\ IF p = NULL
       THEN /\ last' = [op |-> "release", args |-> <<NULL>>, ptr |-> NULL,
                        aborted |-> FALSE, before |-> mem, after |-> mem,
                        ret |-> NULL]
            /\ UNCHANGED <<mem, h>>
       ELSE \E r \in {release_of(type, mem, h[p])} :
               /\ mem' = r.m
               /\ h' = [h EXCEPT ![p] = r.ret]
               /\ last' = [op |-> "release", args |-> <<h[p]>>, ptr |-> p,
                           aborted |-> FALSE, before |-> mem, after |-> r.m,
                           ret |-> r.ret]
    /\ UNCHANGED <<x, y, res>>

NextPre ==
    \/ PreNew
    \/ \E o \in PreOps, u \in OpsHandles \cup {NULL}, v \in OpsHandles \cup {NULL} :
          PreCall(o, u, v)
    \/ \E type \in {"int", "frac"}, real_null \in BOOLEAN, imag_null \in BOOLEAN :
          PreFromParts(type, real_null, imag_null)
    \/ \E u \in OpsHandles \cup {NULL}, max_denominator \in -1..MaxDen :
          PreDoubleToFrac(u, max_denominator)
    \/ \E type \in Types, p \in OpsHandles \cup {NULL} : PreRelease(type, p)

SpecPre == InitPre /\ [][NextPre]_vars

----------------------------------------------------------------------------
(* Threads sharing one instance, built with DC_ATOMIC_REFCOUNT: each of    *)
(* DC_ATOMIC_FETCH_ADD and DC_ATOMIC_FETCH_SUB is one step.  h[t] holds    *)
(* the local variables of thread t: the pointer c it was given, the number *)
(* held of references it owns, and, inside dc_int_release (pc = "sub"),    *)
(* the old_count its decrement returned.  last is the log of the run: uaf  *)
(* (an instance was read or written after DC_FREE), freed_by and freed_old *)
(* (the thread whose release called DC_FREE, and its old_count), retained  *)
(* (a thread has called dc_int_retain).                                    *)

Threads == 1..NumThreads

\* n further references to c, taken by the thread that made the instance
RECURSIVE RetainTimes(_, _, _)
RetainTimes(m, c, n) ==
    IF n = 0 THEN m ELSE RetainTimes(dc_int_retain(m, c).m, c, n - 1)

\* the references all threads own
RECURSIVE TotalHeld(_, _)
TotalHeld(hh, S) ==
    IF S = {} THEN 0
    ELSE LET t == CHOOSE u \in S : TRUE
         IN  hh[t].held + TotalHeld(hh, S \ {t})

\* the main thread makes an instance, takes a reference for each further
\* thread and passes the pointer to all of them
InitThreads ==
    /\ \E made \in {dc_int_from_ints(EmptyMem, 1, -1)} :
          /\ mem = RetainTimes(made.m, made.ret, NumThreads - 1)
          /\ h = [t \in Threads |->
                    [pc |-> "idle", c |-> made.ret, held |-> 1, old_count |-> 0]]
    /\ last = [op |-> "threads", uaf |-> FALSE, freed_by |-> NULL,
               freed_old |-> 0, retained |-> FALSE]
    /\ x = None
    /\ y = None
    /\ res = NoResult

\* thread t: dc_int_retain(c), on a reference it owns
ThreadRetain(t) ==
    /\ h[t].pc = "idle"
    /\ h[t].held \in 1..(MaxHeld - 1)
    /\ TotalHeld(h, Threads) < SIZE_MAX
    /\ mem' = dc_int_retain(mem, h[t].c).m
    /\ h' = [h EXCEPT ![t].held = @ + 1]
    /\ last' = [last EXCEPT !.uaf = @ \/ ~Alive(mem, h[t].c), !.retained = TRUE]
    /\ UNCHANGED <<x, y, res>>

\* thread t enters dc_int_release(&v) for one of its references:
\* old_count = DC_ATOMIC_FETCH_SUB(&(*c)->ref_count, 1)
ThreadReleaseSub(t) ==
    /\ h[t].pc = "idle"
    /\ h[t].held >= 1
    /\ \E old_count \in {DC_ATOMIC_FETCH_SUB(mem, h[t].c, 1)} :
          /\ mem' = old_count.m
          /\ h' = [h EXCEPT ![t].pc = "sub", ![t].held = @ - 1,
                            ![t].old_count = old_count.ret]
    /\ last' = [last EXCEPT !.uaf = @ \/ ~Alive(mem, h[t].c)]
    /\ UNCHANGED <<x, y, res>>

\* thread t finishes dc_int_release: when old_count is 1 it releases the
\* components and frees the instance
ThreadReleaseRest(t) ==
    /\ h[t].pc = "sub"
    /\ mem' = dc_int_release_after_sub(mem, h[t].c, h[t].old_count).m
    /\ h' = [h EXCEPT ![t].pc = "idle"]
    /\ last' = IF h[t].old_count = 1
               THEN [last EXCEPT !.uaf = @ \/ ~Alive(mem, h[t].c),
                                 !.freed_by = t, !.freed_old = h[t].old_count]
               ELSE last
    /\ UNCHANGED <<x, y, res>>

NextThreads ==
    \/ \E t \in Threads : ThreadRetain(t)
    \/ \E t \in Threads : ThreadReleaseSub(t)
    \/ \E t \in Threads : ThreadReleaseRest(t)

SpecThreads == InitThreads /\ [][NextThreads]_vars

----------------------------------------------------------------------------
(* Threads calling dc_int_zero() at the same time.  The slot is a plain    *)
(* static pointer, read and written without synchronisation in every       *)
(* build; a step is one read or write of the slot or of a count.  h[t]     *)
(* holds the position pc of thread t inside dc_int_zero and the pointer    *)
(* ret that its call returned.                                             *)

\* the slot dc_int_zero_singleton
ZeroSlot == <<"int", "zero">>

InitRace ==
    /\ mem = EmptyMem
    /\ h = [t \in Threads |-> [pc |-> "call", ret |-> NULL]]
    /\ last = [op |-> "race"]
    /\ x = None
    /\ y = None
    /\ res = NoResult

\* if (!dc_int_zero_singleton)
RaceTest(t) ==
    /\ h[t].pc = "call"
    /\ h' = [h EXCEPT ![t].pc = IF mem.slot[ZeroSlot] = NULL THEN "make"
                                ELSE "retain"]
    /\ UNCHANGED <<mem, last, x, y, res>>

\* dc_int_zero_singleton = dc_int_from_ints(0, 0);
RaceMake(t) ==
    /\ h[t].pc = "make"
    /\ \E made \in {dc_int_from_ints(mem, ConstRe("zero"), ConstIm("zero"))} :
          mem' = [made.m EXCEPT !.slot[ZeroSlot] = made.ret]
    /\ h' = [h EXCEPT ![t].pc = "store"]
    /\ UNCHANGED <<last, x, y, res>>

\* DC_ATOMIC_STORE(&dc_int_zero_singleton->ref_count, SIZE_MAX/2);
RaceStore(t) ==
    /\ h[t].pc = "store"
    /\ mem' = DC_ATOMIC_STORE(mem, mem.slot[ZeroSlot], SIZE_MAX \div 2)
    /\ h' = [h EXCEPT ![t].pc = "retain"]
    /\ UNCHANGED <<last, x, y, res>>

\* return dc_int_retain(dc_int_zero_singleton);
RaceRetain(t) ==
    /\ h[t].pc = "retain"
    /\ \E r \in {dc_int_retain(mem, mem.slot[ZeroSlot])} :
          /\ mem' = r.m
          /\ h' = [h EXCEPT ![t].pc = "done", ![t].ret = r.ret]
    /\ UNCHANGED <<last, x, y, res>>

NextRace ==
    \/ \E t \in Threads : RaceTest(t)
    \/ \E t \in Threads : RaceMake(t)
    \/ \E t \in Threads : RaceStore(t)
    \/ \E t \in Threads : RaceRetain(t)

SpecRace == InitRace /\ [][NextRace]_vars

----------------------------------------------------------------------------
(* Arithmetic and conversions.  x and y are the values of the caller's     *)
(* operands (y is None when the caller has one operand).  A call builds    *)
(* its operands with the constructors in an empty heap and res records     *)
(* the heap m after the call, the operand instances a and b, the returned  *)
(* instance r and what the caller read from the result.                    *)

IntVal(p, q) == [type |-> "int", real |-> p, imag |-> q]

FracVal(p, q) == [type |-> "frac", real |-> p, imag |-> q]

DoubleVal(p, q) == [type |-> "double", real |-> p, imag |-> q]

\* the operand values the caller starts with
\* the least positive integer that is not a double (2^53 + 1 for binary64)
FirstInexact == Pow2(MantBits) + 1

\* small Gaussian integers, and some with a component that is not a double
IntX ==
    {IntVal(p, q) : p \in -MaxA..MaxA, q \in -MaxA..MaxA}
      \cup {IntVal(FirstInexact, 0), IntVal(1, -FirstInexact)}

IntY == {IntVal(p, q) : p \in -MaxB..MaxB, q \in -MaxB..MaxB}

FracXParts == {Reduce(n, d) : n \in -MaxNum..MaxNum, d \in 1..MaxDen}

FracYParts == {Reduce(n, d) : n \in -1..1, d \in 1..2}

\* with the operands 1/2 + 1/3i and 1/4 + 1/6i of test_dc_frac_arithmetic,
\* and an operand whose real part is a half that is not a double
FracX ==
    {FracVal(p, q) : p \in FracXParts, q \in FracXParts}
      \cup {FracVal(<<1, 2>>, <<1, 3>>),
            FracVal(<<2 * FirstInexact - 1, 2>>, <<0, 1>>)}

FracY ==
    {FracVal(p, q) : p \in FracYParts, q \in FracYParts}
      \cup {FracVal(<<1, 4>>, <<1, 6>>)}

\* the third operand of a caller that combines three values
IntZ == {IntVal(0, 0), IntVal(-1, MaxB), IntVal(MaxA, -MaxA)}

FracZ ==
    {FracVal(<<0, 1>>, <<0, 1>>), FracVal(<<-1, MaxDen>>, <<1, 1>>),
     FracVal(<<1, MaxDen + 1>>, <<-MaxNum, MaxDen>>)}

Thirds(v) == IF v.type = "int" THEN IntZ ELSE FracZ

DoubleParts == {RoundToDouble(n, d) : n \in -MaxNum..MaxNum, d \in 1..(MaxDen + 1)}

DoubleX == {DoubleVal(p, q) : p \in DoubleParts, q \in DoubleParts}

Multipliers == (-MaxK..MaxK) \ {0}

InitAlg ==
    /\ mem = EmptyMem
    /\ h = [v \in Handles |-> NULL]
    /\ last = [op |-> "init", id |-> NULL, src |-> NULL, old |-> 0, var |-> NULL,
               fresh |-> FALSE]
    /\ \/ x \in IntX /\ y \in IntY \cup {None}
       \/ x \in FracX /\ y \in FracY \cup {None}
       \/ x \in DoubleX /\ y = None
    /\ res = NoResult

\* the instance of value v, from the constructor of its type
Load(m, v) ==
    CASE v.type = "int" -> dc_int_from_ints(m, v.real, v.imag)
      [] v.type = "frac" ->
            dc_frac_from_ints(m, v.real[1], v.real[2], v.imag[1], v.imag[2])
      [] v.type = "double" -> dc_double_from_doubles(m, v.real, v.imag)

IsZeroVal(v) ==
    CASE v.type = "int" -> v.real = 0 /\ v.imag = 0
      [] v.type = "frac" -> v.real[1] = 0 /\ v.imag[1] = 0
      [] v.type = "double" -> v.real[1] = 0 /\ v.imag[1] = 0

\* the caller has no result in hand
Idle == res = NoResult

\* the value of the singleton constant k of a type
ConstVal(type, k) ==
    IF type = "int" THEN IntVal(ConstRe(k), ConstIm(k))
    ELSE FracVal(<<ConstRe(k), 1>>, <<ConstIm(k), 1>>)

\* what the caller keeps of r = f(a) and of r = f(a, b)
Unary(op, a, r) == [op |-> op, m |-> r.m, a |-> a.ret, b |-> NULL, r |-> r.ret]

Binary(op, a, b, r) ==
    [op |-> op, m |-> r.m, a |-> a.ret, b |-> b.ret, r |-> r.ret]

IntMul ==
    /\ Idle
    /\ x.type = "int"
    /\ y # None
    /\ res' =
          Do([a \in {Load(EmptyMem, x)} |->
          Do([b \in {Load(a.m, y)} |->
          Do([r \in {dc_int_mul(b.m, a.ret, b.ret)} |->
          Binary("dc_int_mul", a, b, r)
          ])])])
    /\ UNCHANGED <<mem, h, last, x, y>>

\* q = dc_int_div(a, b); dc_frac_is_gaussian_int(q); t = dc_frac_to_int(q)
IntDiv ==
    /\ Idle
    /\ x.type = "int"
    /\ y # None
    /\ ~IsZeroVal(y)
    /\ res' =
          Do([a \in {Load(EmptyMem, x)} |->
          Do([b \in {Load(a.m, y)} |->
          Do([q \in {dc_int_div(b.m, a.ret, b.ret)} |->
          Do([t \in {dc_frac_to_int(q.m, q.ret)} |->
          [op |-> "dc_int_div", m |-> t.m, a |-> a.ret, b |-> b.ret,
           r |-> q.ret, g |-> dc_frac_is_gaussian_int(q.m, q.ret),
           t |-> t.ret]
          ])])])])
    /\ UNCHANGED <<mem, h, last, x, y>>

\* after p = dc_int_mul(a, b): q = dc_int_div(p, b);
\* dc_frac_is_gaussian_int(q); t = dc_frac_to_int(q); dc_int_eq(t, a)
IntDivBack ==
    /\ res.op = "dc_int_mul"
    /\ ~IsZeroVal(y)
    /\ res' =
          Do([q \in {dc_int_div(res.m, res.r, res.b)} |->
          Do([t \in {dc_frac_to_int(q.m, q.ret)} |->
          [op |-> "dc_int_mul_div", m |-> t.m, a |-> res.a, b |-> res.b,
           p |-> res.r, r |-> q.ret,
           g |-> dc_frac_is_gaussian_int(q.m, q.ret), t |-> t.ret,
           back |-> dc_int_eq(t.m, t.ret, res.a)]
          ])])
    /\ UNCHANGED <<mem, h, last, x, y>>

\* f = dc_int_to_frac(a); dc_frac_is_gaussian_int(f); t = dc_frac_to_int(f);
\* dc_int_eq(t, a)
IntToFrac ==
    /\ Idle
    /\ x.type = "int"
    /\ y = None
    /\ res' =
          Do([a \in {Load(EmptyMem, x)} |->
          Do([f \in {dc_int_to_frac(a.m, a.ret)} |->
          Do([t \in {dc_frac_to_int(f.m, f.ret)} |->
          [op |-> "dc_int_to_frac", m |-> t.m, a |-> a.ret, b |-> NULL,
           r |-> f.ret, g |-> dc_frac_is_gaussian_int(f.m, f.ret),
           t |-> t.ret, back |-> dc_int_eq(t.m, t.ret, a.ret)]
          ])])])
    /\ UNCHANGED <<mem, h, last, x, y>>

\* a = dc_<type>_<k1>(); b = dc_<type>_<k2>(); r = dc_<type>_mul(a, b);
\* n = dc_<type>_neg_one(); dc_<type>_eq(r, n); dc_<type>_is_zero(r)
MulConstants ==
    /\ Idle
    /\ \E type \in {"int", "frac"}, k1 \in Kinds, k2 \in Kinds :
          /\ x = ConstVal(type, k1)
          /\ y = ConstVal(type, k2)
          /\ res' =
                Do([a \in {singleton(EmptyMem, type, k1)} |->
                Do([b \in {singleton(a.m, type, k2)} |->
                Do([r \in {mul(b.m, a.ret, b.ret)} |->
                Do([n \in {singleton(r.m, type, "neg_one")} |->
                [op |-> "mul_constants", m |-> n.m, a |-> a.ret,
                 b |-> b.ret, r |-> r.ret, k1 |-> k1, k2 |-> k2,
                 eq_neg_one |-> eq(n.m, r.ret, n.ret),
                 is_zero |-> is_zero(n.m, r.ret)]
                ])])])])
    /\ UNCHANGED <<mem, h, last, x, y>>

FracAdd ==
    /\ Idle
    /\ x.type = "frac"
    /\ y # None
    /\ res' =
          Do([a \in {Load(EmptyMem, x)} |->
          Do([b \in {Load(a.m, y)} |->
          Do([r \in {dc_frac_add(b.m, a.ret, b.ret)} |->
          Binary("dc_frac_add", a, b, r)
          ])])])
    /\ UNCHANGED <<mem, h, last, x, y>>

FracSub ==
    /\ Idle
    /\ x.type = "frac"
    /\ y # None
    /\ res' =
          Do([a \in {Load(EmptyMem, x)} |->
          Do([b \in {Load(a.m, y)} |->
          Do([r \in {dc_frac_sub(b.m, a.ret, b.ret)} |->
          Binary("dc_frac_sub", a, b, r)
          ])])])
    /\ UNCHANGED <<mem, h, last, x, y>>

FracMul ==
    /\ Idle
    /\ x.type = "frac"
    /\ y # None
    /\ res' =
          Do([a \in {Load(EmptyMem, x)} |->
          Do([b \in {Load(a.m, y)} |->
          Do([r \in {dc_frac_mul(b.m, a.ret, b.ret)} |->
          Binary("dc_frac_mul", a, b, r)
          ])])])
    /\ UNCHANGED <<mem, h, last, x, y>>

FracDiv ==
    /\ Idle
    /\ x.type = "frac"
    /\ y # None
    /\ ~IsZeroVal(y)
    /\ res' =
          Do([a \in {Load(EmptyMem, x)} |->
          Do([b \in {Load(a.m, y)} |->
          Do([r \in {dc_frac_div(b.m, a.ret, b.ret)} |->
          Binary("dc_frac_div", a, b, r)
          ])])])
    /\ UNCHANGED <<mem, h, last, x, y>>

\* after d = dc_frac_div(a, b): r = dc_frac_mul(d, b); dc_frac_eq(r, a)
FracMulBack ==
    /\ res.op = "dc_frac_div"
    /\ res' =
          Do([r \in {dc_frac_mul(res.m, res.r, res.b)} |->
          [op |-> "dc_frac_div_mul", m |-> r.m, a |-> res.a, b |-> res.b,
           d |-> res.r, r |-> r.ret,
           back |-> dc_frac_eq(r.m, r.ret, res.a)]
          ])
    /\ UNCHANGED <<mem, h, last, x, y>>

\* after p = dc_frac_mul(a, b): r = dc_frac_div(p, b); dc_frac_eq(r, a)
FracDivBack ==
    /\ res.op = "dc_frac_mul"
    /\ ~IsZeroVal(y)
    /\ res' =
          Do([r \in {dc_frac_div(res.m, res.r, res.b)} |->
          [op |-> "dc_frac_mul_div", m |-> r.m, a |-> res.a, b |-> res.b,
           p |-> res.r, r |-> r.ret,
           back |-> dc_frac_eq(r.m, r.ret, res.a)]
          ])
    /\ UNCHANGED <<mem, h, last, x, y>>

FracNegate ==
    /\ Idle
    /\ x.type = "frac"
    /\ y = None
    /\ res' =
          Do([a \in {Load(EmptyMem, x)} |->
          Do([r \in {dc_frac_negate(a.m, a.ret)} |->
          Unary("dc_frac_negate", a, r)
          ])])
    /\ UNCHANGED <<mem, h, last, x, y>>

FracConj ==
    /\ Idle
    /\ x.type = "frac"
    /\ y = None
    /\ res' =
          Do([a \in {Load(EmptyMem, x)} |->
          Do([r \in {dc_frac_conj(a.m, a.ret)} |->
          Unary("dc_frac_conj", a, r)
          ])])
    /\ UNCHANGED <<mem, h, last, x, y>>

FracReciprocal ==
    /\ Idle
    /\ x.type = "frac"
    /\ y = None
    /\ ~IsZeroVal(x)
    /\ res' =
          Do([a \in {Load(EmptyMem, x)} |->
          Do([r \in {dc_frac_reciprocal(a.m, a.ret)} |->
          Unary("dc_frac_reciprocal", a, r)
          ])])
    /\ UNCHANGED <<mem, h, last, x, y>>

FracCopy ==
    /\ Idle
    /\ x.type = "frac"
    /\ y = None
    /\ res' =
          Do([a \in {Load(EmptyMem, x)} |->
          Do([r \in {dc_frac_copy(a.m, a.ret)} |->
          Unary("dc_frac_copy", a, r)
          ])])
    /\ UNCHANGED <<mem, h, last, x, y>>

\* dc_frac_is_gaussian_int(a); dc_frac_is_zero(a)
FracPredicates ==
    /\ Idle
    /\ x.type = "frac"
    /\ y = None
    /\ res' =
          Do([a \in {Load(EmptyMem, x)} |->
          [op |-> "dc_frac_predicates", m |-> a.m, a |-> a.ret,
           b |-> NULL, r |-> a.ret,
           g |-> dc_frac_is_gaussian_int(a.m, a.ret),
           z |-> dc_frac_is_zero(a.m, a.ret)]
          ])
    /\ UNCHANGED <<mem, h, last, x, y>>

\* With x = n/d + (e/f)i in lowest terms:
\* a = dc_frac_from_ints(j*n, j*d, k*e, k*f);
\* r = dc_frac_from_ints(k*j*n, k*j*d, j*k*e, j*k*f); dc_frac_eq(a, r);
\* dc_frac_is_gaussian_int(a)
FracFromInts(k, j) ==
    /\ Idle
    /\ x.type = "frac"
    /\ y = None
    /\ res' =
          Do([args \in {<<j * x.real[1], j * x.real[2],
                          k * x.imag[1], k * x.imag[2]>>} |->
          Do([a \in {dc_frac_from_ints(EmptyMem, args[1], args[2],
                                       args[3], args[4])} |->
          Do([r \in {dc_frac_from_ints(a.m, k * args[1], k * args[2],
                                       j * args[3], j * args[4])} |->
          [op |-> "dc_frac_from_ints", m |-> r.m, a |-> a.ret,
           b |-> NULL, r |-> r.ret, args |-> args, k |-> k, j |-> j,
           eq |-> dc_frac_eq(r.m, a.ret, r.ret),
           g |-> dc_frac_is_gaussian_int(r.m, a.ret)]
          ])])])
    /\ UNCHANGED <<mem, h, last, x, y>>

DoubleToFrac(max_denominator) ==
    /\ Idle
    /\ x.type = "double"
    /\ y = None
    /\ res' =
          Do([a \in {Load(EmptyMem, x)} |->
          Do([r \in {dc_double_to_frac(a.m, a.ret, max_denominator)} |->
          [op |-> "dc_double_to_frac", m |-> r.m, a |-> a.ret,
           b |-> NULL, r |-> r.ret, max_denominator |-> max_denominator]
          ])])
    /\ UNCHANGED <<mem, h, last, x, y>>

IntAdd ==
    /\ Idle
    /\ x.type = "int"
    /\ y # None
    /\ res' =
          Do([a \in {Load(EmptyMem, x)} |->
          Do([b \in {Load(a.m, y)} |->
          Do([r \in {dc_int_add(b.m, a.ret, b.ret)} |->
          Binary("dc_int_add", a, b, r)
          ])])])
    /\ UNCHANGED <<mem, h, last, x, y>>

\* after r = add(a, b): s = add(b, a); eq(r, s)
AddSwapped ==
    /\ res.op \in {"dc_int_add", "dc_frac_add"}
    /\ res' =
          Do([s \in {add(res.m, res.b, res.a)} |->
          [op |-> "add_swapped", m |-> s.m, a |-> res.a, b |-> res.b,
           r |-> res.r, s |-> s.ret, eq |-> eq(s.m, res.r, s.ret)]
          ])
    /\ UNCHANGED <<mem, h, last, x, y>>

\* after r = add(a, b): c = third operand; l = add(r, c); bc = add(b, c);
\* s = add(a, bc); eq(l, s)
AddAssoc(z) ==
    /\ res.op \in {"dc_int_add", "dc_frac_add"}
    /\ z \in Thirds(x)
    /\ res' =
          Do([c \in {Load(res.m, z)} |->
          Do([l \in {add(c.m, res.r, c.ret)} |->
          Do([bc \in {add(l.m, res.b, c.ret)} |->
          Do([s \in {add(bc.m, res.a, bc.ret)} |->
          [op |-> "add_assoc", m |-> s.m, a |-> res.a, b |-> res.b,
           c |-> c.ret, r |-> l.ret, s |-> s.ret,
           eq |-> eq(s.m, l.ret, s.ret)]
          ])])])])
    /\ UNCHANGED <<mem, h, last, x, y>>

\* a, b and a third operand c: bc = add(b, c); l = mul(a, bc); ab = mul(a, b);
\* ac = mul(a, c); s = add(ab, ac); eq(l, s)
Distribute(z) ==
    /\ Idle
    /\ x.type \in {"int", "frac"}
    /\ y # None
    /\ z \in Thirds(x)
    /\ res' =
          Do([a \in {Load(EmptyMem, x)} |->
          Do([b \in {Load(a.m, y)} |->
          Do([c \in {Load(b.m, z)} |->
          Do([bc \in {add(c.m, b.ret, c.ret)} |->
          Do([l \in {mul(bc.m, a.ret, bc.ret)} |->
          Do([ab \in {mul(l.m, a.ret, b.ret)} |->
          Do([ac \in {mul(ab.m, a.ret, c.ret)} |->
          Do([s \in {add(ac.m, ab.ret, ac.ret)} |->
          [op |-> "distribute", m |-> s.m, a |-> a.ret, b |-> b.ret,
           c |-> c.ret, r |-> l.ret, s |-> s.ret,
           eq |-> eq(s.m, l.ret, s.ret)]
          ])])])])])])])])
    /\ UNCHANGED <<mem, h, last, x, y>>

\* r = conj(a); s = conj(r); eq(s, a); eq(r, a); is_real(a)
ConjTwice ==
    /\ Idle
    /\ y = None
    /\ res' =
          Do([a \in {Load(EmptyMem, x)} |->
          Do([r \in {conj(a.m, a.ret)} |->
          Do([s \in {conj(r.m, r.ret)} |->
          [op |-> "conj_twice", m |-> s.m, a |-> a.ret, b |-> NULL,
           r |-> r.ret, s |-> s.ret,
           eq_back |-> eq(s.m, s.ret, a.ret),
           eq_conj |-> eq(s.m, r.ret, a.ret),
           is_real |-> is_real(s.m, a.ret)]
          ])])])
    /\ UNCHANGED <<mem, h, last, x, y>>

\* after r = dc_frac_reciprocal(a): one = dc_frac_one(); d = dc_frac_div(one,
\* a); p = dc_frac_mul(a, r); s = dc_frac_reciprocal(r); dc_frac_eq(r, d);
\* dc_frac_eq(p, one); dc_frac_eq(s, a)
ReciprocalLaws ==
    /\ res.op = "dc_frac_reciprocal"
    /\ res' =
          Do([one \in {dc_frac_singleton(res.m, "one")} |->
          Do([d \in {dc_frac_div(one.m, one.ret, res.a)} |->
          Do([p \in {dc_frac_mul(d.m, res.a, res.r)} |->
          Do([s \in {dc_frac_reciprocal(p.m, res.r)} |->
          [op |-> "reciprocal_laws", m |-> s.m, a |-> res.a, b |-> NULL,
           r |-> res.r, d |-> d.ret, p |-> p.ret, s |-> s.ret,
           eq_div |-> dc_frac_eq(s.m, res.r, d.ret),
           eq_one |-> dc_frac_eq(s.m, p.ret, one.ret),
           eq_back |-> dc_frac_eq(s.m, s.ret, res.a)]
          ])])])])
    /\ UNCHANGED <<mem, h, last, x, y>>

\* t = dc_frac_to_int(a)
FracToInt ==
    /\ Idle
    /\ x.type = "frac"
    /\ y = None
    /\ res' =
          Do([a \in {Load(EmptyMem, x)} |->
          Do([t \in {dc_frac_to_int(a.m, a.ret)} |->
          Unary("dc_frac_to_int", a, t)
          ])])
    /\ UNCHANGED <<mem, h, last, x, y>>

\* s = dc_int_to_string(a)
IntToString ==
    /\ Idle
    /\ x.type = "int"
    /\ y = None
    /\ res' =
          Do([a \in {Load(EmptyMem, x)} |->
          Do([s \in {dc_int_to_string(a.m, a.ret)} |->
          [op |-> "dc_int_to_string", m |-> s.m, a |-> a.ret, b |-> NULL,
           r |-> a.ret, str |-> s.ret]
          ])])
    /\ UNCHANGED <<mem, h, last, x, y>>

\* s = dc_int_to_string(a); f = dc_int_to_frac(a); t = dc_frac_to_string(f);
\* d = dc_int_to_double(a); u = dc_double_to_string(d)
ToStrings ==
    /\ Idle
    /\ x.type = "int"
    /\ y = None
    /\ res' =
          Do([a \in {Load(EmptyMem, x)} |->
          Do([s \in {dc_int_to_string(a.m, a.ret)} |->
          Do([f \in {dc_int_to_frac(s.m, a.ret)} |->
          Do([t \in {dc_frac_to_string(f.m, f.ret)} |->
          Do([d \in {dc_int_to_double(t.m, a.ret)} |->
          Do([u \in {dc_double_to_string(d.m, d.ret)} |->
          [op |-> "to_strings", m |-> u.m, a |-> a.ret, b |-> NULL,
           r |-> a.ret, f |-> f.ret, d |-> d.ret, s |-> s.ret, t |-> t.ret,
           u |-> u.ret]
          ])])])])])])
    /\ UNCHANGED <<mem, h, last, x, y>>

\* the component accessor of the type of c for the part "real" or "imag"
component(m, c, part) ==
    CASE m.obj[c].type = "int" /\ part = "real" -> dc_int_real(m, c)
      [] m.obj[c].type = "int" /\ part = "imag" -> dc_int_imag(m, c)
      [] m.obj[c].type = "frac" /\ part = "real" -> dc_frac_real(m, c)
      [] m.obj[c].type = "frac" /\ part = "imag" -> dc_frac_imag(m, c)

\* the caller's copy of a, which shares the components of a; none when the
\* caller keeps no second instance
Second(a, shared) ==
    IF shared THEN copy(a.m, a.ret)
    ELSE [m |-> a.m, ret |-> NULL]

\* e = dc_<type>_real(a) or dc_<type>_imag(a); dc_<type>_release(&a);
\* di_release(&e) or df_release(&e); with shared the caller holds a copy of
\* a as well (test_dc_int_arithmetic reads the components of a result and
\* releases them, then the result)
Component(part, shared) ==
    /\ Idle
    /\ x.type \in {"int", "frac"}
    /\ y = None
    /\ res' =
          Do([a \in {Load(EmptyMem, x)} |->
          Do([k \in {Second(a, shared)} |->
          Do([e \in {component(k.m, a.ret, part)} |->
          Do([d \in {release(e.m, a.ret)} |->
          [op |-> "component", part |-> part, shared |-> shared,
           before |-> k.m, m |-> e.m, a |-> a.ret, b |-> NULL, r |-> a.ret,
           e |-> e.ret, released |-> d.m,
           freed |-> EngineRelease(d.m, e.ret)]
          ])])])])
    /\ UNCHANGED <<mem, h, last, x, y>>

\* the caller goes on with the result as its first operand
Feed ==
    /\ ~Idle
    /\ LET v == ValueOf(res.m, res.r)
       IN  /\ v \in IntX \cup FracX
           /\ x' = v
           /\ y' = IF y # None /\ y.type = v.type THEN y ELSE None
    /\ res' = NoResult
    /\ UNCHANGED <<mem, h, last>>

\* the caller goes on with the operands it had
Drop ==
    /\ ~Idle
    /\ res' = NoResult
    /\ UNCHANGED <<mem, h, last, x, y>>

NextAlg ==
    \/ IntMul
    \/ IntDiv
    \/ IntDivBack
    \/ IntToFrac
    \/ MulConstants
    \/ FracAdd
    \/ FracSub
    \/ FracMul
    \/ FracDiv
    \/ FracMulBack
    \/ FracDivBack
    \/ FracNegate
    \/ FracConj
    \/ FracReciprocal
    \/ FracCopy
    \/ FracPredicates
    \/ \E k \in Multipliers, j \in Multipliers : FracFromInts(k, j)
    \/ \E max_denominator \in 1..MaxDen : DoubleToFrac(max_denominator)
    \/ IntAdd
    \/ AddSwapped
    \/ \E z \in IntZ \cup FracZ : AddAssoc(z)
    \/ \E z \in IntZ \cup FracZ : Distribute(z)
    \/ ConjTwice
    \/ ReciprocalLaws
    \/ FracToInt
    \/ IntToString
    \/ ToStrings
    \/ \E part \in {"real", "imag"}, shared \in BOOLEAN : Component(part, shared)
    \/ Feed
    \/ Drop

SpecAlg == InitAlg /\ [][NextAlg]_vars

----------------------------------------------------------------------------
(* Reference counting: C1, C2, C9, C10 *)

Instances == 1..Len(mem.obj)

RefCount(c) == mem.obj[c].ref_count

\* no handle variable of the caller refers to a deallocated instance
NoDangling == \A v \in Handles : h[v] # NULL => Alive(mem, h[v])

\* the engine handles stored in a live instance refer to live engine objects
LiveComponents ==
    \A c \in Instances :
        Alive(mem, c) /\ mem.obj[c].type # "double" =>
            CompAlive(mem, mem.obj[c].real) /\ CompAlive(mem, mem.obj[c].imag)

\* C1: an instance that is not a singleton (its value may equal a singleton
\* constant) starts with reference count 1, each retain adds exactly 1, each
\* release subtracts exactly 1, and it is deallocated exactly once, by the
\* release that takes the count from 1 to 0, and never while the count is
\* above 0 or a handle of the caller still refers to it.
C1_RefCountLifecycle ==
    /\ NoDangling
    /\ \A c \in Instances : ~IsSingleton(mem, c) =>
          /\ mem.obj[c].frees <= 1
          /\ (mem.obj[c].frees = 1) <=> (RefCount(c) = 0)
    /\ last.op \in {"new", "copy"} => last.fresh /\ RefCount(last.id) = 1
    /\ last.op = "retain" /\ ~IsSingleton(mem, last.id) =>
          RefCount(last.id) = last.old + 1
    /\ last.op = "release" /\ ~IsSingleton(mem, last.id) =>
          /\ RefCount(last.id) = last.old - 1
          /\ (mem.obj[last.id].frees = 1) <=> (last.old = 1)

\* an instance equal to the singleton zero, retained and then released twice:
\* the second release took its count from 1 to 0 and deallocated it
C1_Witness ==
    /\ last.op = "release"
    /\ last.old = 1
    /\ ~IsSingleton(mem, last.id)
    /\ mem.obj[last.id].frees = 1
    /\ mem.obj[last.id].type = "int"
    /\ mem.comp[mem.obj[last.id].real].val = 0
    /\ mem.comp[mem.obj[last.id].imag].val = 0

\* C2: no sequence of accessor calls and releases, however many more releases
\* than accessor calls, deallocates a singleton or one of its components.
C2_SingletonsNeverFreed ==
    \A s \in Types \X Kinds :
        mem.slot[s] # NULL =>
            /\ Alive(mem, mem.slot[s])
            /\ s[1] # "double" =>
                  /\ CompAlive(mem, mem.obj[mem.slot[s]].real)
                  /\ CompAlive(mem, mem.obj[mem.slot[s]].imag)

\* a singleton released when its stored count was already 0: the count has
\* wrapped to SIZE_MAX and the instance is still allocated
C2_Witness ==
    /\ last.op = "release"
    /\ IsSingleton(mem, last.id)
    /\ last.old = 0
    /\ RefCount(last.id) = SIZE_MAX
    /\ Alive(mem, last.id)

\* the handle variables other than v that refer to instance c
OtherHolders(hh, v, c) == {w \in Handles \ {v} : hh[w] = c}

\* retain returns its argument, and release(&a) sets a, and only a, to NULL;
\* while another handle b refers to the instance it stays allocated with the
\* same value
C9_RetainRelease ==
    /\ last'.op = "retain" =>
          /\ last'.id = last'.src
          /\ h'[last'.var] = last'.src
          /\ \A w \in Handles \ {last'.var} : h'[w] = h[w]
    /\ last'.op = "release" /\ last'.var # NULL =>
          /\ h'[last'.var] = NULL
          /\ \A w \in Handles \ {last'.var} : h'[w] = h[w]
          /\ OtherHolders(h', last'.var, last'.id) # {} =>
                /\ Alive(mem', last'.id)
                /\ Alive(mem, last'.id) =>
                      ValueOf(mem', last'.id) = ValueOf(mem, last'.id)

\* C9 as stated: after b = retain(a) and release(&a), release(&b) sets b to
\* NULL and deallocates the instance, whatever the instance.
C9_AsStated ==
    [][/\ C9_RetainRelease
       /\ last'.op = "release" /\ last'.var # NULL
             /\ OtherHolders(h', last'.var, last'.id) = {} =>
                ~Alive(mem', last'.id)]_vars

\* C9, amended: ... release(&b), the release of the last handle, sets b to
\* NULL and deallocates the instance unless the instance is a singleton,
\* which stays allocated.
C9_Amended ==
    [][/\ C9_RetainRelease
       /\ last'.op = "release" /\ last'.var # NULL
             /\ OtherHolders(h', last'.var, last'.id) = {} =>
                (~Alive(mem', last'.id) <=> ~IsSingleton(mem, last'.id))]_vars

\* after b = retain(a) on a constructed instance, release(&a) has just run:
\* a is NULL, b still refers to the live instance
C9_Witness ==
    /\ last.op = "release"
    /\ last.old = 2
    /\ ~IsSingleton(mem, last.id)
    /\ h[last.var] = NULL
    /\ \E w \in Handles : h[w] = last.id
    /\ Alive(mem, last.id)

HasNaN(m, c) ==
    m.obj[c].type = "double" /\ (IsNaN(m.obj[c].real) \/ IsNaN(m.obj[c].imag))

\* what C10 says of a copy apart from its equality with the operand: a new
\* identity, reference count 1, not a singleton, the operand's count
\* unchanged; every live instance keeps live components and its value, so
\* releasing either instance leaves the other valid and unchanged
C10_CopyIdentity ==
    /\ last'.op = "copy" =>
          /\ last'.fresh
          /\ last'.id # last'.src
          /\ mem'.obj[last'.id].ref_count = 1
          /\ ~IsSingleton(mem', last'.id)
          /\ mem'.obj[last'.src].ref_count = last'.old
          /\ mem.obj[last'.src].ref_count = last'.old
    /\ \A c \in Instances :
          Alive(mem, c) /\ Alive(mem', c) => ValueOf(mem', c) = ValueOf(mem, c)

----------------------------------------------------------------------------
(* Arithmetic and conversions: C3 .. C8 (checked under SpecAlg) *)

\* the value of the instance c in the heap of the last call
V(c) == ValueOf(res.m, c)

\* rationals as pairs <<n, d>>, d # 0, not reduced; equality by cross
\* multiplication
RatMul(p, q) == <<p[1] * q[1], p[2] * q[2]>>

RatAdd(p, q) == <<p[1] * q[2] + q[1] * p[2], p[2] * q[2]>>

RatSub(p, q) == <<p[1] * q[2] - q[1] * p[2], p[2] * q[2]>>

RatEq(p, q) == p[1] * q[2] = q[1] * p[2]

\* the rational complex v times w equals u
IsProduct(u, v, w) ==
    /\ RatEq(u.real, RatSub(RatMul(v.real, w.real), RatMul(v.imag, w.imag)))
    /\ RatEq(u.imag, RatAdd(RatMul(v.real, w.imag), RatMul(v.imag, w.real)))

\* the Gaussian integer v as a rational complex
Promoted(v) == FracVal(<<v.real, 1>>, <<v.imag, 1>>)

\* C3: for all Gaussian integers a and nonzero b, q = dc_int_div(dc_int_mul(a,
\* b), b) is the exact rational quotient of the promoted operands,
\* dc_frac_is_gaussian_int(q) is true and dc_frac_to_int(q) is equal to a;
\* (3+4i)/(1-2i) gives -1+2i.
C3_AsStated ==
    /\ res.op = "dc_int_mul_div" =>
          /\ IsProduct(Promoted(V(res.p)), V(res.r), Promoted(V(res.b)))
          /\ res.g
          /\ res.back
    /\ (res.op = "dc_int_div" /\ V(res.a) = IntVal(3, 4) /\ V(res.b) = IntVal(1, -2)) =>
          /\ V(res.r) = FracVal(<<-1, 1>>, <<2, 1>>)
          /\ res.g
          /\ V(res.t) = IntVal(-1, 2)

\* C4: for a = p+qi and b = r+si, Gaussian or rational, mul(a, b) has real
\* part p*r - q*s and imaginary part p*s + q*r; with the singleton constants
\* i*i is equal to neg_one and one*zero is zero; (3+4i)*(1-2i) = 11-2i.
C4_MulFormula ==
    /\ res.op = "dc_int_mul" =>
          LET a == V(res.a)
              b == V(res.b)
          IN  V(res.r) = IntVal(a.real * b.real - a.imag * b.imag,
                                a.real * b.imag + a.imag * b.real)
    /\ res.op = "dc_frac_mul" => IsProduct(V(res.r), V(res.a), V(res.b))
    /\ res.op = "mul_constants" =>
          /\ V(res.r).type = "int" =>
                IsProduct(Promoted(V(res.r)), Promoted(V(res.a)), Promoted(V(res.b)))
          /\ V(res.r).type = "frac" => IsProduct(V(res.r), V(res.a), V(res.b))
          /\ (res.k1 = "i" /\ res.k2 = "i") => res.eq_neg_one
          /\ (res.k1 = "one" /\ res.k2 = "zero") => res.is_zero
    /\ (res.op = "dc_int_mul" /\ V(res.a) = IntVal(3, 4) /\ V(res.b) = IntVal(1, -2)) =>
          V(res.r) = IntVal(11, -2)

C4_Witness ==
    /\ res.op = "dc_int_mul"
    /\ V(res.a) = IntVal(3, 4)
    /\ V(res.b) = IntVal(1, -2)
    /\ V(res.r) = IntVal(11, -2)

\* c*c + d*d of the rational complex c + di
SquaredModulus(v) == RatAdd(RatMul(v.real, v.real), RatMul(v.imag, v.imag))

\* C5: for all rational complex a and nonzero b = c+di, dc_frac_div(a, b) is
\* the exact quotient: dc_frac_mul(dc_frac_div(a, b), b) and
\* dc_frac_div(dc_frac_mul(a, b), b) are equal to a; c*c + d*d is nonzero
\* exactly when b is not the zero value.
C5_DivExact ==
    /\ res.op = "dc_frac_div" =>
          /\ IsProduct(V(res.a), V(res.r), V(res.b))
          /\ SquaredModulus(V(res.b))[1] # 0
    /\ res.op = "dc_frac_div_mul" => res.back /\ V(res.r) = V(res.a)
    /\ res.op = "dc_frac_mul_div" => res.back /\ V(res.r) = V(res.a)
    /\ res.op = "dc_frac_predicates" =>
          (SquaredModulus(V(res.a))[1] # 0 <=> ~res.z)

C5_Witness ==
    /\ res.op = "dc_frac_mul_div"
    /\ V(res.a) = FracVal(<<3, 2>>, <<1, 1>>)
    /\ V(res.b) = FracVal(<<1, 2>>, <<-1, 1>>)
    /\ res.back

\* n/d is in lowest terms with a positive denominator
LowestTerms(p) == p[2] > 0 /\ GCD(Abs(p[1]), p[2]) = 1

\* C6: both components of every live rational complex instance are in
\* lowest terms with a strictly positive denominator, after any sequence of
\* dc_frac_from_ints (unreduced inputs and negative denominators included),
\* add, sub, mul, div, negate, conj, reciprocal, copy, dc_int_to_frac,
\* dc_int_div and dc_double_to_frac; and dc_frac_from_ints(n, d, m, e) is
\* equal to dc_frac_from_ints(k*n, k*d, j*m, j*e) for all nonzero k, j.
C6_LowestTerms ==
    /\ res # NoResult =>
          \A c \in 1..Len(res.m.obj) :
             (Alive(res.m, c) /\ res.m.obj[c].type = "frac") =>
                LowestTerms(V(c).real) /\ LowestTerms(V(c).imag)
    /\ res.op = "dc_frac_from_ints" => res.eq

C6_Witness ==
    /\ res.op = "dc_frac_from_ints"
    /\ res.args = <<-6, -4, 2, -2>>
    /\ res.k = -2
    /\ res.j = -2
    /\ V(res.a) = FracVal(<<3, 2>>, <<-1, 1>>)
    /\ res.eq

\* C7: dc_frac_is_gaussian_int(q) is true iff the reduced denominators of
\* both components of q are 1; it is true for dc_int_to_frac(c) of every
\* Gaussian integer c and for dc_frac_from_ints(6, 2, 4, 2), and false as
\* soon as a component is not integral (3/1 + 1/2 i).
C7_GaussianIntPredicate ==
    /\ res.op \in {"dc_frac_predicates", "dc_int_div", "dc_int_mul_div",
                   "dc_int_to_frac"} =>
          (res.g <=> (V(res.r).real[2] = 1 /\ V(res.r).imag[2] = 1))
    /\ res.op = "dc_frac_from_ints" =>
          /\ res.g <=> (V(res.a).real[2] = 1 /\ V(res.a).imag[2] = 1)
          /\ res.g <=> /\ res.args[1] % Abs(res.args[2]) = 0
                       /\ res.args[3] % Abs(res.args[4]) = 0
          /\ res.args = <<6, 2, 4, 2>> => res.g
    /\ res.op = "dc_int_to_frac" => res.g
    /\ (res.op = "dc_frac_predicates" /\ V(res.a) = FracVal(<<3, 1>>, <<1, 2>>)) =>
          ~res.g

C7_Witness ==
    /\ res.op = "dc_frac_from_ints"
    /\ res.args = <<6, 2, 4, 2>>
    /\ res.g

\* C8: for every Gaussian integer c, of components of any size,
\* dc_frac_to_int(dc_int_to_frac(c)) is equal to c.
C8_AsStated == res.op = "dc_int_to_frac" => res.back

----------------------------------------------------------------------------
(* Ownership of results, immutability and the singleton slots: C11 .. C14  *)
(* (SpecOps)                                                                *)

\* the calls that make an instance
Producing ==
    {"new", "copy", "add", "mul", "div", "conj", "reciprocal", "to_frac", "to_int"}

\* the operand instances of the call that led to the next state
Operands == {last'.src, last'.src2} \ {NULL}

ResultIsNew ==
    /\ last'.id \notin 1..Len(mem.obj)
    /\ Alive(mem', last'.id)
    /\ mem'.obj[last'.id].ref_count = 1
    /\ last'.id \notin Operands
    /\ ~IsSingleton(mem', last'.id)
    /\ h'[FreeVar] = last'.id

OperandCountsKept ==
    /\ \A c \in Operands : mem'.obj[c].ref_count = mem.obj[c].ref_count
    /\ \A c \in 1..Len(mem.obj) :
          Alive(mem, c) => mem'.obj[c].ref_count = mem.obj[c].ref_count

\* the caller's handle is the slot's instance, whose count is one more than
\* before the call, or one more than the saturated count at the first call
OneMoreReference ==
    /\ IsSingleton(mem', last'.id)
    /\ h'[FreeVar] = last'.id
    /\ mem'.obj[last'.id].ref_count =
          WrapSize((IF last'.id \in 1..Len(mem.obj)
                    THEN mem.obj[last'.id].ref_count
                    ELSE SIZE_MAX \div 2) + 1)
    /\ \A c \in 1..Len(mem.obj) :
          c # last'.id => mem'.obj[c].ref_count = mem.obj[c].ref_count

Readable(m, c) ==
    m.obj[c].type # "double" =>
        CompAlive(m, m.obj[c].real) /\ CompAlive(m, m.obj[c].imag)

Constant(s) ==
    [type |-> s[1],
     real |-> IF s[1] = "int" THEN ConstRe(s[2]) ELSE <<ConstRe(s[2]), 1>>,
     imag |-> IF s[1] = "int" THEN ConstIm(s[2]) ELSE <<ConstIm(s[2]), 1>>]

\* what a call of the accessor of slot s does in the heap m: with the slot
\* empty it allocates one instance, which it stores in the slot and returns;
\* with the slot set it allocates nothing and returns the slot's instance; it
\* leaves the other slots alone and the instance holds the constant
AccessorContract(m, s) ==
    \A r \in {singleton(m, s[1], s[2])} :
       /\ r.ret = r.m.slot[s]
       /\ \A o \in (Types \X Kinds) \ {s} : r.m.slot[o] = m.slot[o]
       /\ Alive(r.m, r.ret)
       /\ ValueOf(r.m, r.ret) = Constant(s)
       /\ IF m.slot[s] = NULL
          THEN /\ Len(r.m.obj) = Len(m.obj) + 1
               /\ r.ret = Len(m.obj) + 1
          ELSE /\ Len(r.m.obj) = Len(m.obj)
               /\ r.ret = m.slot[s]

\* C13: in a single-threaded run a slot is empty until the first call of its
\* accessor, which creates exactly one instance; every later call, whatever
\* the calls and releases in between, returns that same instance, holding the
\* accessor's constant; a slot never changes once set and two slots never
\* share an instance.  This holds for each of the fifteen accessors.
C13_SlotsSetOnce ==
    [][/\ \A s \in Types \X Kinds :
             /\ AccessorContract(mem, s)
             /\ mem.slot[s] # NULL => mem'.slot[s] = mem.slot[s]
             /\ mem'.slot[s] # mem.slot[s] =>
                   /\ last'.op = "accessor"
                   /\ last'.id = mem'.slot[s]
                   /\ last'.fresh
             /\ \A o \in Types \X Kinds :
                   mem'.slot[s] # NULL /\ mem'.slot[o] = mem'.slot[s] => o = s
       /\ last'.op = "accessor" => IsSingleton(mem', last'.id)]_vars

\* the caller has called the same accessor twice: its two handle variables
\* hold the same pointer, and nothing was allocated by the second call
C13_Witness ==
    /\ last.op = "accessor"
    /\ ~last.fresh
    /\ IsSingleton(mem, last.id)
    /\ \A v \in Handles : h[v] = last.id
    /\ Len(mem.obj) = 1

\* the release of a singleton, as a step: the handle variable that was
\* released is NULL, and the slots, the instance and its value are as before
SingletonReleased ==
    /\ last'.op = "release"
    /\ IsSingleton(mem, last'.id)

SingletonKept ==
    /\ last'.var # NULL => h'[last'.var] = NULL
    /\ \A v \in Handles \ {last'.var} : h'[v] = h[v]
    /\ mem'.slot = mem.slot
    /\ Alive(mem', last'.id)
    /\ ValueOf(mem', last'.id) = ValueOf(mem, last'.id)
    /\ Readable(mem', last'.id)
    /\ \A c \in 1..Len(mem.obj) :
          c # last'.id => mem'.obj[c] = mem.obj[c]

\* C14 as stated: release on a singleton sets the caller's handle to NULL and
\* leaves the singleton's stored reference count, value and slot as they were
C14_AsStated ==
    [][SingletonReleased =>
          /\ SingletonKept
          /\ mem'.obj[last'.id].ref_count = mem.obj[last'.id].ref_count]_vars

\* C14: release on a singleton sets the caller's handle to NULL, takes one
\* from the singleton's stored reference count (in size_t arithmetic: from 0
\* to SIZE_MAX) and never deallocates it; the singleton's value and slot and
\* every other instance are the same after the call as before
C14_Amended ==
    [][SingletonReleased =>
          /\ SingletonKept
          /\ mem'.obj[last'.id].ref_count =
                WrapSize(mem.obj[last'.id].ref_count - 1)]_vars

\* a singleton was released through the caller's handle variable when its
\* stored count was 1: the variable is NULL, the count 0, the slot still set
C14_Witness ==
    /\ last.op = "release"
    /\ last.var # NULL
    /\ h[last.var] = NULL
    /\ last.old = 1
    /\ IsSingleton(mem, last.id)
    /\ Alive(mem, last.id)
    /\ RefCount(last.id) = 0

----------------------------------------------------------------------------
(* Threads: C15, C16 *)

\* the instance the threads share
Shared == h[CHOOSE t \in Threads : TRUE].c

\* C15: with atomic reference counts, for a non-singleton instance shared by
\* threads that own their references and retain and release them in any
\* interleaving: the stored count is the number of references owned (no
\* update is lost); the instance is freed at most once, by the thread whose
\* decrement returned 1, and it is freed once all references are released;
\* no retain or release reads or writes the instance after it was freed
C15_AtomicCounts ==
    /\ mem.obj[Shared].ref_count = TotalHeld(h, Threads)
    /\ ~last.uaf
    /\ mem.obj[Shared].frees <= 1
    /\ mem.obj[Shared].frees = 1 =>
          /\ last.freed_by \in Threads
          /\ last.freed_old = 1
          /\ TotalHeld(h, Threads) = 0
    /\ (\A t \in Threads : h[t].pc = "idle" /\ h[t].held = 0) =>
          /\ mem.obj[Shared].frees = 1
          /\ ~CompAlive(mem, mem.obj[Shared].real)
          /\ ~CompAlive(mem, mem.obj[Shared].imag)
    /\ \A t \in Threads :
          h[t].pc = "sub" /\ h[t].old_count = 1 =>
             /\ Alive(mem, Shared)
             /\ \A u \in Threads \ {t} : ~(h[u].pc = "sub" /\ h[u].old_count = 1)

\* after retains and releases, a thread has freed the instance while another
\* thread, whose decrement came earlier, is still inside its own release
C15_Witness ==
    /\ mem.obj[Shared].frees = 1
    /\ last.retained
    /\ last.freed_by \in Threads
    /\ \E u \in Threads \ {last.freed_by} :
          h[u].pc = "sub" /\ h[u].old_count > 1

\* the threads whose call of dc_int_zero has returned
Returners == {t \in Threads : h[t].pc = "done"}

\* C16 as stated: when threads call the same accessor before its slot is
\* set, exactly one instance is created for the slot, every caller receives
\* that instance, the saturated count is not overwritten after a caller has
\* retained (the count is SIZE_MAX/2 plus one per returned call), and no
\* created instance is left out of the slot
C16_AsStated ==
    /\ Len(mem.obj) <= 1
    /\ \A t \in Returners : h[t].ret = mem.slot[ZeroSlot]
    /\ \A c \in 1..Len(mem.obj) : c = mem.slot[ZeroSlot]
    /\ (Returners # {} /\ \A t \in Threads : h[t].pc \in {"call", "done"}) =>
          mem.obj[mem.slot[ZeroSlot]].ref_count =
             WrapSize(SIZE_MAX \div 2 + Cardinality(Returners))

----------------------------------------------------------------------------
(* Algebraic laws: C17 .. C20 (SpecAlg) *)

\* the componentwise sum of two values of the same exact type
SumOf(u, v) ==
    IF u.type = "int" THEN IntVal(u.real + v.real, u.imag + v.imag)
    ELSE FracVal(Reduce(RatAdd(u.real, v.real)[1], RatAdd(u.real, v.real)[2]),
                 Reduce(RatAdd(u.imag, v.imag)[1], RatAdd(u.imag, v.imag)[2]))

\* C17: for Gaussian integers and for rational complex numbers add(a, b) is
\* equal to add(b, a) and add(add(a, b), c) is equal to add(a, add(b, c)) (by
\* the eq of the type and as values); (3+4i) + (1-2i) = 4+2i and
\* (1/2 + 1/3i) + (1/4 + 1/6i) = 3/4 + 1/2i
C17_AddLaws ==
    /\ res.op \in {"dc_int_add", "dc_frac_add"} => V(res.r) = SumOf(x, y)
    /\ res.op = "add_swapped" => res.eq /\ V(res.r) = V(res.s)
    /\ res.op = "add_assoc" =>
          /\ res.eq
          /\ V(res.r) = V(res.s)
          /\ V(res.r) = SumOf(SumOf(x, y), V(res.c))
    /\ (res.op = "dc_int_add" /\ x = IntVal(3, 4) /\ y = IntVal(1, -2)) =>
          V(res.r) = IntVal(4, 2)
    /\ (res.op = "dc_frac_add" /\ x = FracVal(<<1, 2>>, <<1, 3>>)
          /\ y = FracVal(<<1, 4>>, <<1, 6>>)) =>
          V(res.r) = FracVal(<<3, 4>>, <<1, 2>>)

\* (1/2 + 1/3i) + (1/4 + 1/6i), then a third operand added on either side
C17_Witness ==
    /\ res.op = "add_assoc"
    /\ x = FracVal(<<1, 2>>, <<1, 3>>)
    /\ y = FracVal(<<1, 4>>, <<1, 6>>)
    /\ V(res.c) = FracVal(<<1, MaxDen + 1>>, <<-MaxNum, MaxDen>>)
    /\ res.eq

\* a value of an exact type as a rational complex
AsRational(v) == IF v.type = "int" THEN Promoted(v) ELSE v

\* C18: for Gaussian integers and for rational complex numbers a, b, c,
\* mul(a, add(b, c)) is equal (by the eq of the type, and as a value) to
\* add(mul(a, b), mul(a, c)), and it is the product of a and the sum b + c
C18_Distributive ==
    res.op = "distribute" =>
       /\ res.eq
       /\ V(res.r) = V(res.s)
       /\ IsProduct(AsRational(V(res.r)), AsRational(V(res.a)),
                    AsRational(SumOf(V(res.b), V(res.c))))

\* a rational a with both parts nonzero, times a sum of two operands that
\* are not zero
C18_Witness ==
    /\ res.op = "distribute"
    /\ V(res.a) = FracVal(<<1, 2>>, <<1, 3>>)
    /\ V(res.b) = FracVal(<<1, 4>>, <<1, 6>>)
    /\ V(res.c) = FracVal(<<1, MaxDen + 1>>, <<-MaxNum, MaxDen>>)
    /\ ~IsZeroVal(V(res.r))
    /\ res.eq

\* the negation of a component of a value of type
NegOf(type, p) ==
    CASE type = "int" -> -p
      [] type = "frac" -> <<-p[1], p[2]>>
      [] type = "double" -> DoubleNeg(p)

\* the component p of a value of type is zero
ZeroPart(type, p) == IF type = "int" THEN p = 0 ELSE p[1] = 0 /\ p[2] # 0

\* C19: for every x of the three types (finite for the floating type),
\* conj(conj(x)) is equal to x, conj(x) has the real component of x and the
\* negated imaginary component of x, and conj(x) is equal to x exactly when
\* x is real (is_real(x), that is, its imaginary component is zero)
C19_ConjLaws ==
    res.op = "conj_twice" =>
       /\ res.eq_back
       /\ V(res.s) = V(res.a)
       /\ V(res.r).real = V(res.a).real
       /\ V(res.r).imag = NegOf(V(res.a).type, V(res.a).imag)
       /\ res.eq_conj <=> res.is_real
       /\ res.is_real <=> ZeroPart(V(res.a).type, V(res.a).imag)

\* conj(3 + 4i) = 3 - 4i, which is not equal to 3 + 4i
C19_Witness ==
    /\ res.op = "conj_twice"
    /\ V(res.a) = IntVal(3, 4)
    /\ V(res.r) = IntVal(3, -4)
    /\ res.eq_back
    /\ ~res.eq_conj

\* C20: for every nonzero rational complex c, dc_frac_reciprocal(c) is equal
\* (dc_frac_eq) to dc_frac_div(dc_frac_one(), c), dc_frac_mul(c,
\* dc_frac_reciprocal(c)) is equal to dc_frac_one(), and the reciprocal of the
\* reciprocal is equal to c; as values, c times its reciprocal is 1
C20_ReciprocalLaws ==
    res.op = "reciprocal_laws" =>
       /\ res.eq_div
       /\ V(res.r) = V(res.d)
       /\ res.eq_one
       /\ V(res.p) = FracVal(<<1, 1>>, <<0, 1>>)
       /\ res.eq_back
       /\ V(res.s) = V(res.a)
       /\ IsProduct(FracVal(<<1, 1>>, <<0, 1>>), V(res.a), V(res.r))

\* 1/(1/2 + 1/3i) = 18/13 - 12/13i
C20_Witness ==
    /\ res.op = "reciprocal_laws"
    /\ V(res.a) = FracVal(<<1, 2>>, <<1, 3>>)
    /\ V(res.r) = FracVal(<<18, 13>>, <<-12, 13>>)
    /\ res.eq_div
    /\ res.eq_one
    /\ res.eq_back

----------------------------------------------------------------------------
(* Rounding, rendering and preconditions: C21 .. C26 *)

\* k is the integer nearest to n/d (d > 0), the one of larger magnitude when
\* n/d is halfway between two integers
NearestAway(k, n, d) ==
    /\ 2 * Abs(n - k * d) <= d
    /\ 2 * Abs(n - k * d) = d => Abs(k) * d > Abs(n)

\* C21 as stated: dc_frac_to_int rounds each component n/d, of any size, to
\* the nearest integer, halfway cases away from zero
C21_AsStated ==
    res.op = "dc_frac_to_int" =>
       /\ NearestAway(V(res.r).real, V(res.a).real[1], V(res.a).real[2])
       /\ NearestAway(V(res.r).imag, V(res.a).imag[1], V(res.a).imag[2])

\* the text t occurs in the text s
Contains(s, t) ==
    \E k \in 0..(Len(s) - Len(t)) : SubSeq(s, k + 1, k + Len(t)) = t

\* the case table for the components R and I with the component texts r, i
Table(R, I, r, i) ==
    IF R = 0 /\ I = 0 THEN <<"0">>
    ELSE IF I = 0 THEN r
    ELSE IF R = 0
         THEN (IF I = 1 THEN <<"i">>
               ELSE IF I = -1 THEN <<"-", "i">> ELSE i \o <<"i">>)
    ELSE r \o (IF I = 1 THEN <<"+", "i">>
               ELSE IF I = -1 THEN <<"-", "i">>
               ELSE IF I < 0 THEN i \o <<"i">>
               ELSE <<"+">> \o i \o <<"i">>)

\* the imaginary terms that are never written
BadTerms ==
    {<<"1", "i">>, <<"+", "1", "i">>, <<"-", "1", "i">>, <<"0", "i">>,
     <<"+", "0", "i">>, <<"-", "0", "i">>}

ArgValue(k) == ValueOf(last.before, last.args[k])

\* the recorded call was given NULL for one of its n handle operands
NullOperand(n) == \E k \in 1..n : last.args[k] = NULL

\* the recorded call failed an assertion before it did anything
FailedAtOnce ==
    /\ last.aborted
    /\ last.ret = NULL
    /\ last.after = last.before
    /\ mem = last.before

\* C23: dc_frac_div and dc_frac_reciprocal with the rational zero as divisor,
\* dc_int_div with the Gaussian zero as divisor and dc_double_div with the
\* divisor 0.0 + 0.0i fail an assertion and return nothing; with a divisor
\* that has a nonzero component the assertion does not fire
C23_ZeroDivisorAsserts ==
    /\ (last.op \in {"dc_frac_div", "dc_int_div", "dc_double_div"}
          /\ ~NullOperand(2)) =>
          /\ last.aborted <=> IsZeroVal(ArgValue(2))
          /\ last.aborted => last.ret = NULL
          /\ ~last.aborted => last.ret # NULL
    /\ (last.op = "dc_frac_reciprocal" /\ ~NullOperand(1)) =>
          /\ last.aborted <=> IsZeroVal(ArgValue(1))
          /\ last.aborted => last.ret = NULL
          /\ ~last.aborted => last.ret # NULL

\* dc_int_div by the Gaussian zero fails in dc_frac_div, after the operands
\* were promoted
C23_Witness ==
    /\ last.op = "dc_int_div"
    /\ last.aborted
    /\ ~NullOperand(2)
    /\ ArgValue(2) = IntVal(0, 0)
    /\ ArgValue(1) = IntVal(0, 2)
    /\ Len(last.after.obj) = Len(last.before.obj) + 2

\* the number of handle operands of the recorded call
HandleOperands ==
    IF last.op \in {"dc_int_from_di", "dc_frac_from_df"} THEN 2
    ELSE IF last.op = "dc_double_to_frac" THEN 1
    ELSE IF \E o \in PreOps : o.f = last.op
         THEN (CHOOSE o \in PreOps : o.f = last.op).n
    ELSE 0

Approximation(v, max_denominator) ==
    df_from_double(EmptyMem, v, max_denominator).m.comp[1].val

\* C25: dc_double_to_frac(c, max_denominator) fails an assertion for every
\* max_denominator <= 0; for max_denominator > 0 and finite c the result has
\* reduced denominators of at most max_denominator, each component being
\* the approximation of the same component of c alone
C25_DoubleToFrac ==
    (last.op = "dc_double_to_frac" /\ ~NullOperand(1)) =>
       /\ last.aborted <=> last.args[2] <= 0
       /\ last.aborted => FailedAtOnce
       /\ ~last.aborted =>
             \A r \in {ValueOf(last.after, last.ret)} :
                /\ r.type = "frac"
                /\ LowestTerms(r.real) /\ r.real[2] <= last.args[2]
                /\ LowestTerms(r.imag) /\ r.imag[2] <= last.args[2]
                /\ r.real = Approximation(ArgValue(1).real, last.args[2])
                /\ r.imag = Approximation(ArgValue(1).imag, last.args[2])

\* 0 - 1.5i with max_denominator 2 gives 0 - 3/2 i
C25_Witness ==
    /\ last.op = "dc_double_to_frac"
    /\ ~last.aborted
    /\ last.args[2] = 2
    /\ ArgValue(1) = DoubleVal(<<0, 1>>, <<-3, 2>>)
    /\ ValueOf(last.after, last.ret) = FracVal(<<0, 1>>, <<-3, 2>>)

\* C26: a release function given a NULL pointer, or a pointer to a handle
\* that is NULL, returns without asserting and changes no reference count,
\* instance or slot; a release leaves the handle NULL, so that releasing the
\* same handle variable twice in a row is safe
C26_ReleaseOfNull ==
    last.op = "release" =>
       /\ ~last.aborted
       /\ (last.ptr = NULL \/ last.args[1] = NULL) =>
             last.after = last.before /\ mem = last.before
       /\ last.ptr # NULL => h[last.ptr] = NULL

\* the handle variable of an instance that was freed is released again
C26_Witness ==
    /\ last.op = "release"
    /\ last.ptr # NULL
    /\ last.args[1] = NULL
    /\ Len(mem.obj) = 1
    /\ mem.obj[1].type = "double"
    /\ mem.obj[1].frees = 1
    /\ mem = last.before

----------------------------------------------------------------------------
(* Component accessors, engine handles, one case table: C27 .. C30 *)

\* the operations for which the release of every engine handle is claimed
Releasing ==
    {"dc_int_add", "dc_int_sub", "dc_int_mul", "dc_int_div", "dc_int_negate",
     "dc_int_conj", "dc_int_to_frac", "dc_frac_add", "dc_frac_sub",
     "dc_frac_mul", "dc_frac_div", "dc_frac_negate", "dc_frac_conj",
     "dc_frac_reciprocal", "dc_frac_to_string"}

\* the engine objects after the recorded call and the release of its result:
\* those that existed before the call are as they were, count included, and
\* those made since have been freed
HandlesBalanced ==
    /\ \A e \in 1..Len(last.before.comp) : mem.comp[e] = last.before.comp[e]
    /\ \A e \in (Len(last.before.comp) + 1)..Len(mem.comp) :
          mem.comp[e].ref_count = 0 /\ mem.comp[e].frees = 1

\* the recorded call returned, and its result, an instance unless the call
\* gives a text, was released to zero
ReturnedAndReleased ==
    /\ ~last.aborted
    /\ ~NullOperand(Len(last.args))
    /\ last.op # "dc_frac_to_string" => ~Alive(mem, last.ret)

\* C28 as stated: after r = op(...) returned and r was released to zero,
\* every engine object that existed before the call has the reference count
\* it had and every engine object created inside the call has been freed,
\* for all arithmetic operations, dc_frac_reciprocal, dc_frac_to_string,
\* dc_int_to_frac and dc_int_div
C28_AsStated ==
    (last.op \in Releasing /\ ReturnedAndReleased) => HandlesBalanced

\* the same for the operations that do not promote a Gaussian integer
C28_WithoutPromotion ==
    (last.op \in Releasing \ {"dc_int_to_frac", "dc_int_div"}
       /\ ReturnedAndReleased) => HandlesBalanced

\* dc_int_to_frac leaves exactly the two integers it got from di_one() live
C28_PromotionLeaksTwo ==
    (last.op = "dc_int_to_frac" /\ ReturnedAndReleased) =>
       /\ \A e \in 1..Len(last.before.comp) :
             mem.comp[e] = last.before.comp[e]
       /\ Cardinality({e \in (Len(last.before.comp) + 1)..Len(mem.comp) :
                          CompAlive(mem, e)}) = 2
       /\ \A e \in (Len(last.before.comp) + 1)..Len(mem.comp) :
             CompAlive(mem, e) =>
                mem.comp[e] = [kind |-> "di", ref_count |-> 1, val |-> 1,
                               frees |-> 0]

\* the memory before and after the accessor differs in nothing but the
\* reference count of the engine object e
OnlyCountOf(e, before, after) ==
    /\ after.obj = before.obj
    /\ after.slot = before.slot
    /\ Len(after.comp) = Len(before.comp)
    /\ \A k \in 1..Len(before.comp) :
          k # e => after.comp[k] = before.comp[k]
    /\ after.comp[e] =
          [before.comp[e] EXCEPT !.ref_count = before.comp[e].ref_count + 1]

SamePlain(part) ==
    /\ df_to_string(res.m, res.m.obj[res.f][part]) =
          di_to_string(res.m, res.m.obj[res.a][part], 10)
    /\ FormatG(res.m.obj[res.d][part]) =
          di_to_string(res.m, res.m.obj[res.a][part], 10)

\* C30: for every Gaussian integer c whose components the three component
\* renderers print as the same plain decimal integer, dc_int_to_string(c),
\* dc_frac_to_string(dc_int_to_frac(c)) and
\* dc_double_to_string(dc_int_to_double(c)) return the identical text, the
\* text of the one case table
C30_OneCaseTable ==
    (res.op = "to_strings" /\ SamePlain("real") /\ SamePlain("imag")) =>
       /\ res.t = res.s
       /\ res.u = res.s
       /\ res.s = Table(x.real, x.imag, Signed(x.real), Signed(x.imag))

\* -2 - 3i is written "-2-3i" by all three
C30_Witness ==
    /\ res.op = "to_strings"
    /\ x = IntVal(-2, -3)
    /\ SamePlain("real")
    /\ SamePlain("imag")
    /\ res.s = <<"-", "2", "-", "3", "i">>
    /\ res.t = res.s
    /\ res.u = res.s

\* where the floating renderer prints another integer than the integer
\* renderer the texts differ
C30_RoundedApart ==
    /\ res.op = "to_strings"
    /\ x = IntVal(FirstInexact, 0)
    /\ ~SamePlain("real")
    /\ res.t = res.s
    /\ res.u # res.s

====
